---- MODULE Spec2Model ----
(***************************************************************************)
(* Edit/undo core of json_tool: the Document buffer (core/document.py),    *)
(* its listener channel (observers/observer.py), the Insert/Delete and     *)
(* composite commands (commands/*.py), the CommandManager history          *)
(* (commands/command_manager.py) and the Editor entry points               *)
(* (core/editor.py).  Strings are sequences of one-character strings.      *)
(***************************************************************************)
EXTENDS Integers, Sequences, FiniteSets, TLC

(* ------------------------------ bounds --------------------------------- *)
\* longest document content explored
MaxLen == 2
\* largest value of Document._edit_count explored
MaxEdits == 5
\* largest explicit max_history constructor argument explored
MaxHistoryArg == 2
\* largest value of Document._edit_count explored in the round trips through
\* the history (two commands, two undos, two redos)
MaxTrip == 6
\* largest number of StatusObserver.update calls explored
MaxUpdates == 22

\* characters of the explored alphabet
Chars == {"{", "}"}
\* texts handed to insert_text / Document.insert
Texts == {<<"{">>, <<"{", "}">>}
\* positions handed to the operations, one below and one above the valid range
Positions == -1 .. (MaxLen + 1)
\* contents handed to set_content
Replacements == {<<>>, <<"}", "{">>}
\* every content of at most MaxLen characters
Contents == UNION {[1..n -> Chars] : n \in 0..MaxLen}

\* Config.MAX_UNDO_HISTORY
MAX_UNDO_HISTORY == 100

\* StatusObserver._max_history
STATUS_MAX_HISTORY == 20

VARIABLES
    content,        \* Document._content
    modified,       \* Document._modified
    edit_count,     \* Document._edit_count
    read_only,      \* Document._read_only
    validation,     \* Document._last_validation_result ("none" = None)
    filepath,       \* Document._filepath ("none" = None)
    observers,      \* Subject._observers, in attachment order
    enabled,        \* Observer._enabled of every listener object
    delivered,      \* the Observer.update calls made by the last operation
    history,        \* CommandManager._history
    current_index,  \* CommandManager._current_index
    max_history,    \* CommandManager._max_history
    events,         \* the notify() calls made by the last operation, in order
    last,           \* the last operation called: name, arguments, outcome
    cmd,            \* a command object driven directly (execute / undo)
    c0,             \* the content at the time cmd was constructed
    trail,          \* the contents seen along the history (round-trip record)
    status          \* a StatusObserver driven directly (update)

vars == <<content, modified, edit_count, read_only, validation, filepath,
          observers, enabled, delivered, history, current_index, max_history,
          events, last, cmd, c0, trail, status>>

\* the fields of the document and of its listeners
docVars == <<content, modified, edit_count, read_only, validation, filepath,
             observers, enabled>>

\* the fields of the history manager
mgrVars == <<history, current_index, max_history>>

\* the objects driven directly
cmdVars == <<cmd, c0, trail, status>>

(* ------------------------- Python string slicing ----------------------- *)
\* index normalisation of a slice bound k on a sequence of length n
SliceBound(k, n) ==
    IF k < 0 THEN (IF k + n < 0 THEN 0 ELSE k + n)
    ELSE IF k > n THEN n ELSE k

\* s[i:j]
Slice(s, i, j) ==
    LET a == SliceBound(i, Len(s))
        b == SliceBound(j, Len(s))
    IN  IF a >= b THEN <<>> ELSE SubSeq(s, a + 1, b)

\* s[:i]
SliceTo(s, i) == Slice(s, 0, i)

\* s[i:]
SliceFrom(s, i) == Slice(s, i, Len(s))

\* whether a text handed to the document is a Python str; the element
\* "byte" stands for a value of another sized type (bytes, a list)
IsStr(text) == \A k \in 1..Len(text) : text[k] # "byte"

(* ------------------------------ Document ------------------------------- *)
\* the document object as a record; delivered collects the update calls
\* made on its listeners during the call in progress
Doc == [content |-> content, modified |-> modified, edit_count |-> edit_count,
        read_only |-> read_only, validation |-> validation,
        filepath |-> filepath, observers |-> observers, delivered |-> <<>>]

\* str.strip() on the explored alphabet: drops leading and trailing blanks
RECURSIVE Strip(_)
Strip(s) ==
    IF s = <<>> THEN s
    ELSE IF Head(s) = " " THEN Strip(Tail(s))
    ELSE IF s[Len(s)] = " " THEN Strip(SubSeq(s, 1, Len(s) - 1))
    ELSE s

\* s is the JSON text of the empty object: an opening brace, blanks, and a
\* closing brace
IsObject(s) ==
    /\ Len(s) >= 2
    /\ s[1] = "{"
    /\ s[Len(s)] = "}"
    /\ \A k \in 2..(Len(s) - 1) : s[k] = " "

\* s is the JSON text of a number: digits "1" only
IsNumber(s) == Len(s) >= 1 /\ \A k \in 1..Len(s) : s[k] = "1"

\* json.loads succeeds on s, a text without blanks around it: over braces,
\* blanks and the digit 1 the JSON texts are the empty object and numbers
JsonLoads(s) == IsObject(s) \/ IsNumber(s)

\* validate without the strip of the content
Validate_NoStrip(s) ==
    IF s = <<>> THEN "valid"
    ELSE IF JsonLoads(s) THEN "valid" ELSE "invalid"

\* ValidatorObserver.validate: the verdict for the whole current content
Validate(s) ==
    IF Strip(s) = <<>> THEN "valid"
    ELSE IF JsonLoads(Strip(s)) THEN "valid" ELSE "invalid"

\* the listener objects: the three the Editor attaches, one whose update
\* raises, one whose update detaches itself from the subject, and a
\* ValidatorObserver constructed with auto_validate=False
Listeners ==
    {"validator", "autosave", "status", "failing", "quitter", "manual",
     "recruiter", "bouncer"}

\* FileManager.format_json(content): json.loads, which skips the blanks
\* around the text, then json.dumps, which writes the empty object as "{}"
\* and a number as its digits
FileFormatJson(s) ==
    IF ~JsonLoads(Strip(s))
    THEN [success |-> FALSE, formatted |-> <<>>]
    ELSE [success |-> TRUE,
          formatted |-> IF IsObject(Strip(s)) THEN <<"{", "}">> ELSE Strip(s)]

\* the ValidatorObserver objects
Validators == {"validator", "manual"}

\* ValidatorObserver._auto_validate: true by default (the Editor's validator)
AutoValidate(observer) == observer = "validator"

\* Editor.__init__: validator, autosave and status observers, in that order
EditorObservers == <<"validator", "autosave", "status">>

\* attach without the membership test
Attached_Always(obs, observer) == Append(obs, observer)

\* Subject.attach(observer)
Attached(obs, observer) ==
    IF \E k \in 1..Len(obs) : obs[k] = observer THEN obs
    ELSE Append(obs, observer)

\* Subject.detach(observer)
Detached(obs, observer) ==
    IF \A k \in 1..Len(obs) : obs[k] # observer THEN obs
    ELSE LET first == CHOOSE k \in 1..Len(obs) :
                          /\ obs[k] = observer
                          /\ \A j \in 1..(k - 1) : obs[j] # observer
         IN  SubSeq(obs, 1, first - 1) \o SubSeq(obs, first + 1, Len(obs))

\* ValidatorObserver.validate(document) called from update: the verdict is
\* kept on the listener (the result field of the update call under way,
\* the last entry of delivered, which also stands for one more
\* validation_count) and stored on the document
ValidatorValidate(d) ==
    [d EXCEPT !.validation = Validate(d.content),
              !.delivered[Len(d.delivered)].result = Validate(d.content)]

\* ValidatorObserver.update validating on every event type
ValidatorUpdate_AnyEvent(observer, d, ev) ==
    IF AutoValidate(observer) THEN ValidatorValidate(d) ELSE d

\* ValidatorObserver.update
ValidatorUpdate(observer, d, ev) ==
    IF ev.type = "content_changed" /\ AutoValidate(observer)
    THEN ValidatorValidate(d)
    ELSE d

\* Observer.update of the listener observer, as far as the document sees it:
\* a validator re-validates on content_changed and stores the verdict on
\* the document, the quitter detaches itself, the recruiter attaches the
\* status listener, the bouncer detaches it, the failing listener raises
\* (and changes nothing), the others keep their results to themselves
Update(observer, d, ev) ==
    IF observer \in Validators THEN ValidatorUpdate(observer, d, ev)
    ELSE IF observer = "quitter"
    THEN [d EXCEPT !.observers = Detached(@, observer)]
    ELSE IF observer = "recruiter"
    THEN [d EXCEPT !.observers = Attached(@, "status")]
    ELSE IF observer = "bouncer"
    THEN [d EXCEPT !.observers = Detached(@, "status")]
    ELSE d

\* one update call as the listener experiences it: what it reads from the
\* document at that moment, whether its update raises, and the validation
\* result it computes ("none" until a validator's validate runs)
Delivery(observer, d, ev) ==
    [observer |-> observer, type |-> ev.type, content |-> d.content,
     modified |-> d.modified, edit_count |-> d.edit_count,
     raised |-> (observer = "failing"), result |-> "none"]

\* the loop of a notify that walks the list as it was when the call began
RECURSIVE DeliverOver(_, _, _, _)
DeliverOver(list, d, ev, i) ==
    IF i >= Len(list) THEN d
    ELSE LET observer == list[i + 1]
             seen == [d EXCEPT !.delivered =
                                  Append(@, Delivery(observer, d, ev))]
         IN  IF ~enabled[observer] THEN DeliverOver(list, d, ev, i + 1)
             ELSE DeliverOver(list, Update(observer, seen, ev), ev, i + 1)

\* Subject.notify iterating over a copy of the observer list
Deliver_Snapshot(d, ev, i) == DeliverOver(d.observers, d, ev, i)

\* the loop of Subject.notify from list index i on: "for observer in
\* self._observers" walks the live list by index, calls update on the
\* enabled listeners and swallows what they raise
RECURSIVE Deliver(_, _, _)
Deliver(d, ev, i) ==
    IF i >= Len(d.observers) THEN d
    ELSE LET observer == d.observers[i + 1]
             seen == [d EXCEPT !.delivered =
                                  Append(@, Delivery(observer, d, ev))]
         IN  IF ~enabled[observer] THEN Deliver(d, ev, i + 1)
             ELSE Deliver(Update(observer, seen, ev), ev, i + 1)

\* Subject.notify(event_type, data)
Notify(d, ev) ==
    [raised |-> "none", doc |-> Deliver(d, ev, 0), events |-> <<ev>>]

\* an operation that raised: nothing changed, nothing notified
Raise(d, exc) == [raised |-> exc, doc |-> d, events |-> <<>>]

\* Document.insert without the lower bound of the position check
DocInsert_NoLowerBound(d, position, text) ==
    IF d.read_only THEN Raise(d, "RuntimeError")
    ELSE IF position > Len(d.content) THEN Raise(d, "ValueError")
    ELSE Notify([d EXCEPT !.content = SliceTo(d.content, position) \o text
                                        \o SliceFrom(d.content, position),
                          !.modified = TRUE,
                          !.edit_count = @ + 1],
                [type |-> "content_changed", operation |-> "insert",
                 position |-> position, text |-> text, length |-> Len(text)])

\* Document.insert that puts the text after the content
DocInsert_Append(d, position, text) ==
    IF d.read_only THEN Raise(d, "RuntimeError")
    ELSE IF position < 0 \/ position > Len(d.content) THEN Raise(d, "ValueError")
    ELSE Notify([d EXCEPT !.content = d.content \o text,
                          !.modified = TRUE,
                          !.edit_count = @ + 1],
                [type |-> "content_changed", operation |-> "insert",
                 position |-> position, text |-> text, length |-> Len(text)])

\* Document.insert that leaves the modified flag as it was
DocInsert_KeepFlag(d, position, text) ==
    IF d.read_only THEN Raise(d, "RuntimeError")
    ELSE IF position < 0 \/ position > Len(d.content) THEN Raise(d, "ValueError")
    ELSE Notify([d EXCEPT !.content = SliceTo(d.content, position) \o text
                                        \o SliceFrom(d.content, position),
                          !.edit_count = @ + 1],
                [type |-> "content_changed", operation |-> "insert",
                 position |-> position, text |-> text, length |-> Len(text)])

\* Document.insert(position, text)
DocInsert(d, position, text) ==
    IF d.read_only THEN Raise(d, "RuntimeError")
    ELSE IF position < 0 \/ position > Len(d.content) THEN Raise(d, "ValueError")
    ELSE IF ~IsStr(text) THEN Raise(d, "TypeError")
    ELSE Notify([d EXCEPT !.content = SliceTo(d.content, position) \o text
                                        \o SliceFrom(d.content, position),
                          !.modified = TRUE,
                          !.edit_count = @ + 1],
                [type |-> "content_changed", operation |-> "insert",
                 position |-> position, text |-> text, length |-> Len(text)])

\* the range check shared by Document.delete and Document.get_text
BadRange(d, start, end) == start < 0 \/ end > Len(d.content) \/ start > end

\* Document.delete that reads deleted_text after the content was cut
DocDelete_CaptureAfter(d, start, end) ==
    IF d.read_only THEN Raise(d, "RuntimeError")
    ELSE IF BadRange(d, start, end) THEN Raise(d, "ValueError")
    ELSE LET cut == SliceTo(d.content, start) \o SliceFrom(d.content, end)
         IN  Notify([d EXCEPT !.content = cut,
                              !.modified = TRUE,
                              !.edit_count = @ + 1],
                    [type |-> "content_changed", operation |-> "delete",
                     start |-> start, end |-> end,
                     deleted_text |-> Slice(cut, start, end),
                     length |-> Len(Slice(cut, start, end))])

\* Document.delete that forgets to count the edit
DocDelete_NoCount(d, start, end) ==
    IF d.read_only THEN Raise(d, "RuntimeError")
    ELSE IF BadRange(d, start, end) THEN Raise(d, "ValueError")
    ELSE Notify([d EXCEPT !.content = SliceTo(d.content, start)
                                        \o SliceFrom(d.content, end),
                          !.modified = TRUE],
                [type |-> "content_changed", operation |-> "delete",
                 start |-> start, end |-> end,
                 deleted_text |-> Slice(d.content, start, end),
                 length |-> Len(Slice(d.content, start, end))])

\* Document.delete(start, end)
DocDelete(d, start, end) ==
    IF d.read_only THEN Raise(d, "RuntimeError")
    ELSE IF BadRange(d, start, end) THEN Raise(d, "ValueError")
    ELSE Notify([d EXCEPT !.content = SliceTo(d.content, start)
                                        \o SliceFrom(d.content, end),
                          !.modified = TRUE,
                          !.edit_count = @ + 1],
                [type |-> "content_changed", operation |-> "delete",
                 start |-> start, end |-> end,
                 deleted_text |-> Slice(d.content, start, end),
                 length |-> Len(Slice(d.content, start, end))])

\* Document.set_content that notifies before it assigns the fields
DocSetContent_NotifyFirst(d, new_content) ==
    IF d.read_only THEN Raise(d, "RuntimeError")
    ELSE LET r == Notify(d, [type |-> "content_changed",
                             old_content |-> d.content,
                             new_content |-> new_content,
                             full_replace |-> TRUE])
         IN  [r EXCEPT !.doc = [r.doc EXCEPT !.content = new_content,
                                             !.modified = TRUE,
                                             !.edit_count = @ + 1]]

\* Document.set_content(content)
DocSetContent(d, new_content) ==
    IF d.read_only THEN Raise(d, "RuntimeError")
    ELSE Notify([d EXCEPT !.content = new_content,
                          !.modified = TRUE,
                          !.edit_count = @ + 1],
                [type |-> "content_changed", old_content |-> d.content,
                 new_content |-> new_content, full_replace |-> TRUE])

\* Document.clear()
DocClear(d) == DocSetContent(d, <<>>)

\* load_from_file that leaves the modified flag as it is
DocLoadFromFile_KeepModified(d, path, new_content) ==
    Notify([d EXCEPT !.filepath = path, !.content = new_content],
           [type |-> "loaded", filepath |-> path, size |-> Len(new_content)])

\* Document.load_from_file(filepath, content)
DocLoadFromFile(d, path, new_content) ==
    Notify([d EXCEPT !.filepath = path,
                     !.content = new_content,
                     !.modified = FALSE],
           [type |-> "loaded", filepath |-> path, size |-> Len(new_content)])

\* Document.mark_as_saved(filepath): "if filepath:" keeps the old path
\* when the argument is None ("none")
DocMarkAsSaved(d, path) ==
    LET d1 == IF path # "none" THEN [d EXCEPT !.filepath = path] ELSE d
    IN  Notify([d1 EXCEPT !.modified = FALSE],
               [type |-> "saved", filepath |-> d1.filepath,
                size |-> Len(d.content)])

\* Document.is_new
IsNew(d) == d.filepath = "none"

\* Document.reset()
DocReset(d) ==
    IF ~IsNew(d) THEN Raise(d, "RuntimeError")
    ELSE Notify([d EXCEPT !.content = <<>>,
                          !.modified = FALSE,
                          !.edit_count = 0,
                          !.validation = "none"],
                [type |-> "reset"])

\* Document.get_text(start, end): a pure read
DocGetText(d, start, end) ==
    IF BadRange(d, start, end)
    THEN [raised |-> "ValueError", value |-> <<>>]
    ELSE [raised |-> "none", value |-> Slice(d.content, start, end)]

(* ------------------------------ Commands ------------------------------- *)
\* InsertCommand(document, position, text)
NewInsert(position, text) ==
    [kind |-> "insert", position |-> position, text |-> text,
     deleted_text |-> <<>>, executed |-> FALSE]

\* DeleteCommand(document, start_position, end_position)
NewDelete(start, end) ==
    [kind |-> "delete", position |-> start, end_position |-> end,
     deleted_text |-> <<>>, executed |-> FALSE]

\* InsertCommand.execute
InsertExecute(c, d) ==
    LET r == DocInsert(d, c.position, c.text)
    IN  IF r.raised = "none"
        THEN [ret |-> TRUE, cmd |-> [c EXCEPT !.executed = TRUE],
              doc |-> r.doc, events |-> r.events]
        ELSE [ret |-> FALSE, cmd |-> c, doc |-> d, events |-> <<>>]

\* InsertCommand.undo refusing when the range no longer holds the text
InsertUndo_Checked(c, d) ==
    LET r == DocDelete(d, c.position, c.position + Len(c.text))
    IN  IF r.raised = "none"
           /\ Slice(d.content, c.position, c.position + Len(c.text)) = c.text
        THEN [ret |-> TRUE, cmd |-> [c EXCEPT !.executed = FALSE],
              doc |-> r.doc, events |-> r.events]
        ELSE [ret |-> FALSE, cmd |-> c, doc |-> d, events |-> <<>>]

\* InsertCommand.undo with the end of the range one character short
InsertUndo_ShortRange(c, d) ==
    LET end_position == c.position + Len(c.text) - 1
        r == DocDelete(d, c.position, end_position)
    IN  IF r.raised = "none"
        THEN [ret |-> TRUE, cmd |-> [c EXCEPT !.executed = FALSE],
              doc |-> r.doc, events |-> r.events]
        ELSE [ret |-> FALSE, cmd |-> c, doc |-> d, events |-> <<>>]

\* InsertCommand.undo
InsertUndo(c, d) ==
    LET end_position == c.position + Len(c.text)
        r == DocDelete(d, c.position, end_position)
    IN  IF r.raised = "none"
        THEN [ret |-> TRUE, cmd |-> [c EXCEPT !.executed = FALSE],
              doc |-> r.doc, events |-> r.events]
        ELSE [ret |-> FALSE, cmd |-> c, doc |-> d, events |-> <<>>]

\* DeleteCommand.execute that deletes without capturing the range
DeleteExecute_NoCapture(c, d) ==
    LET r == DocDelete(d, c.position, c.end_position)
    IN  IF r.raised = "none"
        THEN [ret |-> TRUE, cmd |-> [c EXCEPT !.executed = TRUE],
              doc |-> r.doc, events |-> r.events]
        ELSE [ret |-> FALSE, cmd |-> c, doc |-> d, events |-> <<>>]

\* DeleteCommand.execute: capture the range, then delete it
DeleteExecute(c, d) ==
    LET g == DocGetText(d, c.position, c.end_position)
    IN  IF g.raised # "none"
        THEN [ret |-> FALSE, cmd |-> c, doc |-> d, events |-> <<>>]
        ELSE LET c1 == [c EXCEPT !.deleted_text = g.value]
                 r  == DocDelete(d, c.position, c.end_position)
             IN  IF r.raised = "none"
                 THEN [ret |-> TRUE, cmd |-> [c1 EXCEPT !.executed = TRUE],
                       doc |-> r.doc, events |-> r.events]
                 ELSE [ret |-> FALSE, cmd |-> c1, doc |-> d, events |-> <<>>]

\* DeleteCommand.undo re-inserting at the end position instead of the start
DeleteUndo_AtEnd(c, d) ==
    LET r == DocInsert(d, c.end_position, c.deleted_text)
    IN  IF r.raised = "none"
        THEN [ret |-> TRUE, cmd |-> [c EXCEPT !.executed = FALSE],
              doc |-> r.doc, events |-> r.events]
        ELSE [ret |-> FALSE, cmd |-> c, doc |-> d, events |-> <<>>]

\* DeleteCommand.undo re-inserting one character after the start position
DeleteUndo_PastStart(c, d) ==
    LET r == DocInsert(d, c.position + 1, c.deleted_text)
    IN  IF r.raised = "none"
        THEN [ret |-> TRUE, cmd |-> [c EXCEPT !.executed = FALSE],
              doc |-> r.doc, events |-> r.events]
        ELSE [ret |-> FALSE, cmd |-> c, doc |-> d, events |-> <<>>]

\* DeleteCommand.undo: re-insert the captured text at the start position
DeleteUndo(c, d) ==
    LET r == DocInsert(d, c.position, c.deleted_text)
    IN  IF r.raised = "none"
        THEN [ret |-> TRUE, cmd |-> [c EXCEPT !.executed = FALSE],
              doc |-> r.doc, events |-> r.events]
        ELSE [ret |-> FALSE, cmd |-> c, doc |-> d, events |-> <<>>]

\* execute of a command added to a composite (an insert or a delete)
ChildExecute(c, d) ==
    IF c.kind = "insert" THEN InsertExecute(c, d) ELSE DeleteExecute(c, d)

\* undo of a command added to a composite (an insert or a delete)
ChildUndo(c, d) ==
    IF c.kind = "insert" THEN InsertUndo(c, d) ELSE DeleteUndo(c, d)

\* CompositeCommand() followed by add_command for each child
NewComposite(children) ==
    [kind |-> "composite", children |-> children, executed |-> FALSE]

\* the loop of CompositeCommand.execute from child i on: stops at the
\* first child whose execute returns False, with no rollback
RECURSIVE ExecuteChildren(_, _, _)

\* one turn of that loop without the break: the children after a failed
\* one are executed as well
ExecuteChild_Continue(children, i, r) ==
    LET rest == ExecuteChildren([children EXCEPT ![i] = r.cmd], r.doc, i + 1)
    IN  [rest EXCEPT !.ret = r.ret /\ @, !.events = r.events \o @]

\* one turn of that loop: r is what children[i].execute() returned
RECURSIVE ExecuteChild(_, _, _)
ExecuteChild(children, i, r) ==
    IF ~r.ret
    THEN [ret |-> FALSE, children |-> [children EXCEPT ![i] = r.cmd],
          doc |-> r.doc, events |-> r.events]
    ELSE [ExecuteChildren([children EXCEPT ![i] = r.cmd], r.doc, i + 1)
             EXCEPT !.events = r.events \o @]

ExecuteChildren(children, d, i) ==
    IF i > Len(children)
    THEN [ret |-> TRUE, children |-> children, doc |-> d, events |-> <<>>]
    ELSE ExecuteChild(children, i, ChildExecute(children[i], d))

\* the end of CompositeCommand.execute / undo: r is the outcome of the
\* loop, flag the value the executed flag takes when every child succeeded
CompositeResult(c, r, flag) ==
    [ret |-> r.ret,
     cmd |-> [c EXCEPT !.children = r.children,
                       !.executed = IF r.ret THEN flag ELSE @],
     doc |-> r.doc, events |-> r.events]

\* CompositeCommand.execute rolling back to the starting document when a
\* child fails
CompositeExecute_Rollback(c, d) ==
    LET r == ExecuteChildren(c.children, d, 1)
    IN  IF r.ret THEN CompositeResult(c, r, TRUE)
        ELSE [ret |-> FALSE, cmd |-> c, doc |-> d, events |-> <<>>]

\* CompositeCommand.execute
CompositeExecute(c, d) ==
    CompositeResult(c, ExecuteChildren(c.children, d, 1), TRUE)

\* the loop of CompositeCommand.undo from child i down: reversed order,
\* stops at the first child whose undo returns False
RECURSIVE UndoChildren(_, _, _)

\* one turn of that loop: r is what children[i].undo() returned
RECURSIVE UndoChild(_, _, _)
UndoChild(children, i, r) ==
    IF ~r.ret
    THEN [ret |-> FALSE, children |-> [children EXCEPT ![i] = r.cmd],
          doc |-> r.doc, events |-> r.events]
    ELSE [UndoChildren([children EXCEPT ![i] = r.cmd], r.doc, i - 1)
             EXCEPT !.events = r.events \o @]

UndoChildren(children, d, i) ==
    IF i < 1
    THEN [ret |-> TRUE, children |-> children, doc |-> d, events |-> <<>>]
    ELSE UndoChild(children, i, ChildUndo(children[i], d))

\* CompositeCommand.undo going through the children in insertion order
CompositeUndo_Forward(c, d) ==
    LET n == Len(c.children)
        reversed == [k \in 1..n |-> c.children[n + 1 - k]]
        r == UndoChildren(reversed, d, n)
    IN  CompositeResult(c,
            [r EXCEPT !.children = [k \in 1..n |-> r.children[n + 1 - k]]],
            FALSE)

\* CompositeCommand.undo
CompositeUndo(c, d) ==
    CompositeResult(c, UndoChildren(c.children, d, Len(c.children)), FALSE)

\* Command.execute, dispatched on the command's class
CommandExecute(c, d) ==
    IF c.kind = "composite" THEN CompositeExecute(c, d)
    ELSE ChildExecute(c, d)

\* Command.undo, dispatched on the command's class
CommandUndo(c, d) ==
    IF c.kind = "composite" THEN CompositeUndo(c, d)
    ELSE ChildUndo(c, d)

(* --------------------------- CommandManager ---------------------------- *)
\* CommandManager.__init__: "max_history or Config.MAX_UNDO_HISTORY"
\* (the argument 0 stands for None; Python treats both as false)
InitMaxHistory(arg) == IF arg = 0 THEN MAX_UNDO_HISTORY ELSE arg

\* the manager object as a record
Manager == [history |-> history, current_index |-> current_index,
            max_history |-> max_history]

\* can_undo with the comparison off by one
CanUndo_Positive(m) == m.current_index > 0

\* CommandManager.can_undo
CanUndo(m) == m.current_index >= 0

\* CommandManager.can_redo
CanRedo(m) == m.current_index < Len(m.history) - 1

\* execute without the truncation of the redo branch
TruncateRedo_Keep(h, idx) == h

\* CommandManager.execute, lines 41-42: drop the redo branch past the cursor
TruncateRedo(h, idx) ==
    IF idx < Len(h) - 1 THEN SliceTo(h, idx + 1) ELSE h

\* eviction that forgets to lower the cursor
EvictOldest_NoShift(m) ==
    IF Len(m.history) > m.max_history
    THEN LET removed_count == Len(m.history) - m.max_history
         IN  [m EXCEPT !.history = SliceFrom(m.history, removed_count)]
    ELSE m

\* CommandManager.execute, lines 47-50: evict the oldest entries
EvictOldest(m) ==
    IF Len(m.history) > m.max_history
    THEN LET removed_count == Len(m.history) - m.max_history
         IN  [m EXCEPT !.history = SliceFrom(m.history, removed_count),
                       !.current_index = @ - removed_count]
    ELSE m

\* execute that records the command whether or not it succeeded
ManagerExecute_RecordFailed(m, c, d) ==
    LET r  == CommandExecute(c, d)
        h1 == TruncateRedo(m.history, m.current_index)
        m2 == [m EXCEPT !.history = Append(h1, r.cmd),
                        !.current_index = @ + 1]
    IN  [ret |-> r.ret, mgr |-> EvictOldest(m2), doc |-> r.doc,
         events |-> r.events]

\* CommandManager.execute(command)
ManagerExecute(m, c, d) ==
    LET r == CommandExecute(c, d)
    IN  IF ~r.ret
        THEN [ret |-> FALSE, mgr |-> m, doc |-> r.doc, events |-> r.events]
        ELSE LET h1 == TruncateRedo(m.history, m.current_index)
                 m2 == [m EXCEPT !.history = Append(h1, r.cmd),
                                 !.current_index = @ + 1]
             IN  [ret |-> TRUE, mgr |-> EvictOldest(m2), doc |-> r.doc,
                  events |-> r.events]

\* undo that moves the cursor even when the command's undo failed
ManagerUndo_AlwaysDecrement(m, d) ==
    IF ~CanUndo(m)
    THEN [ret |-> FALSE, mgr |-> m, doc |-> d, events |-> <<>>]
    ELSE LET r == CommandUndo(m.history[m.current_index + 1], d)
             h == [m.history EXCEPT ![m.current_index + 1] = r.cmd]
         IN  [ret |-> r.ret,
              mgr |-> [m EXCEPT !.history = h, !.current_index = @ - 1],
              doc |-> r.doc, events |-> r.events]

\* CommandManager.undo (the list index is 0-based in the source)
ManagerUndo(m, d) ==
    IF ~CanUndo(m)
    THEN [ret |-> FALSE, mgr |-> m, doc |-> d, events |-> <<>>]
    ELSE LET r == CommandUndo(m.history[m.current_index + 1], d)
             h == [m.history EXCEPT ![m.current_index + 1] = r.cmd]
         IN  IF r.ret
             THEN [ret |-> TRUE,
                   mgr |-> [m EXCEPT !.history = h, !.current_index = @ - 1],
                   doc |-> r.doc, events |-> r.events]
             ELSE [ret |-> FALSE, mgr |-> [m EXCEPT !.history = h],
                   doc |-> r.doc, events |-> r.events]

\* redo that moves the cursor even when the command's execute failed
ManagerRedo_AlwaysIncrement(m, d) ==
    IF ~CanRedo(m)
    THEN [ret |-> FALSE, mgr |-> m, doc |-> d, events |-> <<>>]
    ELSE LET r == CommandExecute(m.history[m.current_index + 2], d)
             h == [m.history EXCEPT ![m.current_index + 2] = r.cmd]
         IN  [ret |-> r.ret,
              mgr |-> [m EXCEPT !.history = h, !.current_index = @ + 1],
              doc |-> r.doc, events |-> r.events]

\* CommandManager.redo
ManagerRedo(m, d) ==
    IF ~CanRedo(m)
    THEN [ret |-> FALSE, mgr |-> m, doc |-> d, events |-> <<>>]
    ELSE LET r == CommandExecute(m.history[m.current_index + 2], d)
             h == [m.history EXCEPT ![m.current_index + 2] = r.cmd]
         IN  IF r.ret
             THEN [ret |-> TRUE,
                   mgr |-> [m EXCEPT !.history = h, !.current_index = @ + 1],
                   doc |-> r.doc, events |-> r.events]
             ELSE [ret |-> FALSE, mgr |-> [m EXCEPT !.history = h],
                   doc |-> r.doc, events |-> r.events]

\* clear_history that forgets to reset the cursor
ManagerClear_KeepCursor(m) == [m EXCEPT !.history = <<>>]

\* CommandManager.clear_history
ManagerClear(m) == [m EXCEPT !.history = <<>>, !.current_index = -1]

\* Command.description as set by the constructors: the kind, the number of
\* characters and the position of an insert or delete, the default text of
\* a composite
Description(c) ==
    IF c.kind = "insert" THEN <<"insert", Len(c.text), c.position>>
    ELSE IF c.kind = "delete"
    THEN <<"delete", c.end_position - c.position, c.position>>
    ELSE <<"group">>

\* CommandManager.get_undo_description (<<>> stands for None)
GetUndoDescription(m) ==
    IF CanUndo(m) THEN Description(m.history[m.current_index + 1]) ELSE <<>>

\* get_redo_description reading the command at the cursor
GetRedoDescription_AtCursor(m) ==
    IF CanRedo(m) /\ CanUndo(m)
    THEN Description(m.history[m.current_index + 1]) ELSE <<>>

\* CommandManager.get_redo_description (<<>> stands for None)
GetRedoDescription(m) ==
    IF CanRedo(m) THEN Description(m.history[m.current_index + 2]) ELSE <<>>

\* CommandManager.get_history_info
GetHistoryInfo(m) ==
    [total_commands |-> Len(m.history),
     current_index |-> m.current_index,
     can_undo |-> CanUndo(m),
     can_redo |-> CanRedo(m),
     undo_count |-> m.current_index + 1,
     redo_count |-> Len(m.history) - m.current_index - 1,
     max_history |-> m.max_history]

\* CommandManager.get_history: the descriptions, the one at the cursor
\* marked
GetHistory(m) ==
    [i \in 1..Len(m.history) |->
        [marked |-> (i - 1 = m.current_index),
         description |-> Description(m.history[i])]]

\* what the query named q returns
QueryValue(q, m) ==
    IF q = "can_undo" THEN <<CanUndo(m)>>
    ELSE IF q = "can_redo" THEN <<CanRedo(m)>>
    ELSE IF q = "get_undo_description" THEN GetUndoDescription(m)
    ELSE IF q = "get_redo_description" THEN GetRedoDescription(m)
    ELSE IF q = "get_history_info" THEN <<GetHistoryInfo(m)>>
    ELSE GetHistory(m)

(* --------------------------- StatusObserver ---------------------------- *)
\* StatusObserver.__init__; "none" and time 0 stand for None
NewStatus ==
    [status_message |-> [kind |-> "ready", length |-> 0, filepath |-> "none"],
     last_event |-> "none", last_event_time |-> 0, event_history |-> <<>>]

\* the status message update() composes for an event: the f-strings with
\* the length of a content change or the path of a saved or loaded file
StatusMessage(ev) ==
    IF ev.type = "content_changed"
    THEN IF ev.operation = "insert"
         THEN [kind |-> "inserted", length |-> ev.length, filepath |-> "none"]
         ELSE IF ev.operation = "delete"
         THEN [kind |-> "deleted", length |-> ev.length, filepath |-> "none"]
         ELSE [kind |-> "changed", length |-> 0, filepath |-> "none"]
    ELSE IF ev.type = "saved"
    THEN [kind |-> "saved", length |-> 0, filepath |-> ev.filepath]
    ELSE IF ev.type = "loaded"
    THEN [kind |-> "loaded", length |-> ev.size, filepath |-> ev.filepath]
    ELSE IF ev.type = "reset"
    THEN [kind |-> "reset", length |-> 0, filepath |-> "none"]
    ELSE [kind |-> ev.type, length |-> 0, filepath |-> "none"]

\* _add_to_history that keeps the oldest entries
StatusAddToHistory_KeepOldest(log, event) ==
    LET all == Append(log, event)
    IN  IF Len(all) > STATUS_MAX_HISTORY
        THEN SubSeq(all, 1, STATUS_MAX_HISTORY)
        ELSE all

\* StatusObserver._add_to_history(event): append, then keep the last
\* _max_history entries
StatusAddToHistory(log, event) ==
    LET all == Append(log, event)
    IN  IF Len(all) > STATUS_MAX_HISTORY
        THEN SubSeq(all, Len(all) - STATUS_MAX_HISTORY + 1, Len(all))
        ELSE all

\* StatusObserver.update(document, event_type, data); time.time() is a
\* clock that has advanced by one at every call
StatusUpdate(s, ev) ==
    LET current_time == s.last_event_time + 1
    IN  [status_message |-> StatusMessage(ev),
         last_event |-> ev.type,
         last_event_time |-> current_time,
         event_history |->
             StatusAddToHistory(s.event_history,
                                [event_type |-> ev.type,
                                 timestamp |-> current_time,
                                 message |-> StatusMessage(ev)])]

(* ------------------------- state of the model -------------------------- *)
\* the record of the last call: its name and outcome (return value,
\* exception raised, value read), and the cursor and the history length the
\* call started from
Call(op, ret, raised, value) ==
    [op |-> op, ret |-> ret, raised |-> raised, value |-> value,
     pre_index |-> current_index, pre_len |-> Len(history)]

\* no call yet
NoCall ==
    [op |-> "none", ret |-> TRUE, raised |-> "none", value |-> <<>>,
     pre_index |-> -1, pre_len |-> 0]

\* the explored part of the state space
InBounds(d) == Len(d.content) <= MaxLen /\ d.edit_count <= MaxEdits

\* write a document record back to the document's fields
SetDoc(d) ==
    /\ content' = d.content
    /\ modified' = d.modified
    /\ edit_count' = d.edit_count
    /\ read_only' = d.read_only
    /\ validation' = d.validation
    /\ filepath' = d.filepath
    /\ observers' = d.observers
    /\ delivered' = d.delivered

\* write a manager record back to the manager's fields
SetManager(m) ==
    /\ history' = m.history
    /\ current_index' = m.current_index
    /\ max_history' = m.max_history

\* Document(): no file, empty, unmodified, writable, never validated
NewDocument ==
    /\ content = <<>>
    /\ modified = FALSE
    /\ edit_count = 0
    /\ read_only = FALSE
    /\ validation = "none"
    /\ filepath = "none"

\* Observer.__init__: every listener starts enabled
AllEnabled == [o \in Listeners |-> TRUE]

\* nothing called yet, no command object driven directly
NothingCalled ==
    /\ events = <<>>
    /\ delivered = <<>>
    /\ last = NoCall
    /\ cmd = NewInsert(0, <<>>)
    /\ c0 = <<>>
    /\ trail = <<>>
    /\ status = NewStatus

\* Editor.__init__: Document(), CommandManager(max_history), the observers
Init ==
    /\ NewDocument
    /\ observers = EditorObservers
    /\ enabled = AllEnabled
    /\ history = <<>>
    /\ current_index = -1
    /\ max_history \in {InitMaxHistory(arg) : arg \in 0..MaxHistoryArg}
    /\ NothingCalled

(* ------------------------------ Editor --------------------------------- *)
\* the outcome of a CommandManager call becomes the new state
ManagerStep(op, r) ==
    /\ InBounds(r.doc)
    /\ SetDoc(r.doc)
    /\ SetManager(r.mgr)
    /\ events' = r.events
    /\ last' = Call(op, r.ret, "none", <<>>)
    /\ UNCHANGED <<enabled, cmd, c0, trail, status>>

\* Editor.insert_text(position, text)
InsertText(position, text) ==
    ManagerStep("insert_text",
                ManagerExecute(Manager, NewInsert(position, text), Doc))

\* Editor.delete_text(start, end)
DeleteText(start, end) ==
    ManagerStep("delete_text",
                ManagerExecute(Manager, NewDelete(start, end), Doc))

\* Editor.undo
Undo == ManagerStep("undo", ManagerUndo(Manager, Doc))

\* Editor.redo
Redo == ManagerStep("redo", ManagerRedo(Manager, Doc))

\* clear_history that also empties the document
ClearHistory_ClearDocument ==
    /\ SetManager(ManagerClear(Manager))
    /\ content' = <<>>
    /\ modified' = TRUE
    /\ events' = <<>>
    /\ delivered' = <<>>
    /\ last' = Call("clear_history", TRUE, "none", <<>>)
    /\ UNCHANGED <<edit_count, read_only, validation, filepath, observers,
                   enabled, cmdVars>>

\* CommandManager.clear_history, reached through Editor.command_manager
ClearHistory ==
    /\ SetManager(ManagerClear(Manager))
    /\ events' = <<>>
    /\ delivered' = <<>>
    /\ last' = Call("clear_history", TRUE, "none", <<>>)
    /\ UNCHANGED <<docVars, cmdVars>>

\* the outcome of a direct Document call becomes the new state
DocumentStep(op, r) ==
    /\ InBounds(r.doc)
    /\ SetDoc(r.doc)
    /\ events' = r.events
    /\ last' = Call(op, r.raised = "none", r.raised, <<>>)
    /\ UNCHANGED <<enabled, mgrVars, cmdVars>>

\* Editor.set_content(content): replaces the content outside the history
SetContent(new_content) ==
    DocumentStep("set_content", DocSetContent(Doc, new_content))

\* the read_only property setter
SetReadOnly(value) ==
    /\ read_only' = value
    /\ events' = <<>>
    /\ delivered' = <<>>
    /\ last' = Call("set_read_only", TRUE, "none", <<>>)
    /\ UNCHANGED <<content, modified, edit_count, validation, filepath,
                   observers, enabled, mgrVars, cmdVars>>

Next ==
    \/ \E p \in Positions, t \in Texts : InsertText(p, t)
    \/ \E s \in Positions, e \in Positions : DeleteText(s, e)
    \/ Undo
    \/ Redo
    \/ ClearHistory
    \/ \E c \in Replacements : SetContent(c)
    \/ \E v \in BOOLEAN : SetReadOnly(v)

Spec == Init /\ [][Next]_vars

(* ------------------- the Document driven directly ---------------------- *)
\* file paths handed to load_from_file and mark_as_saved
Paths == {"a.json"}

\* the Editor's Document(content=...), possibly read-only, with no history
InitDoc ==
    /\ content \in Contents
    /\ modified = FALSE
    /\ edit_count = 0
    /\ read_only \in BOOLEAN
    /\ validation = "none"
    /\ filepath = "none"
    /\ observers = EditorObservers
    /\ enabled = AllEnabled
    /\ history = <<>>
    /\ current_index = -1
    /\ max_history = MAX_UNDO_HISTORY
    /\ NothingCalled

\* Document.insert(position, text)
DocumentInsert(position, text) ==
    DocumentStep("insert", DocInsert(Doc, position, text))

\* Document.delete(start, end)
DocumentDelete(start, end) ==
    DocumentStep("delete", DocDelete(Doc, start, end))

\* Document.get_text(start, end)
DocumentGetText(start, end) ==
    LET g == DocGetText(Doc, start, end)
    IN  /\ events' = <<>>
        /\ delivered' = <<>>
        /\ last' = Call("get_text", g.raised = "none", g.raised, g.value)
        /\ UNCHANGED <<docVars, mgrVars, cmdVars>>

\* Document.set_content(content)
DocumentSetContent(new_content) ==
    DocumentStep("set_content", DocSetContent(Doc, new_content))

\* Document.clear()
DocumentClear == DocumentStep("clear", DocClear(Doc))

\* Document.load_from_file(filepath, content)
DocumentLoadFromFile(path, new_content) ==
    DocumentStep("load_from_file", DocLoadFromFile(Doc, path, new_content))

\* Document.mark_as_saved(filepath)
DocumentMarkAsSaved(path) ==
    DocumentStep("mark_as_saved", DocMarkAsSaved(Doc, path))

\* Document.reset()
DocumentReset == DocumentStep("reset", DocReset(Doc))

NextDoc ==
    \/ \E p \in Positions, t \in Texts : DocumentInsert(p, t)
    \/ \E s \in Positions, e \in Positions : DocumentDelete(s, e)
    \/ \E s \in Positions, e \in Positions : DocumentGetText(s, e)
    \/ \E c \in Replacements : DocumentSetContent(c)
    \/ DocumentClear
    \/ \E f \in Paths, c \in Replacements : DocumentLoadFromFile(f, c)
    \/ \E f \in Paths \cup {"none"} : DocumentMarkAsSaved(f)
    \/ DocumentReset

SpecDoc == InitDoc /\ [][NextDoc]_vars

(* ------------------- a command driven directly ------------------------- *)
\* the commands that can be constructed from the explored arguments
Commands ==
    {NewInsert(p, t) : p \in Positions, t \in Texts \cup {<<>>}}
    \cup {NewDelete(s, e) : s \in Positions, e \in Positions}

\* a Document with some content and one command constructed on it
InitCmd ==
    /\ content \in Contents
    /\ modified = FALSE
    /\ edit_count = 0
    /\ read_only \in BOOLEAN
    /\ validation = "none"
    /\ filepath = "none"
    /\ observers = EditorObservers
    /\ enabled = AllEnabled
    /\ history = <<>>
    /\ current_index = -1
    /\ max_history = MAX_UNDO_HISTORY
    /\ events = <<>>
    /\ delivered = <<>>
    /\ last = NoCall
    /\ cmd \in Commands
    /\ c0 = content
    /\ trail = <<>>
    /\ status = NewStatus

\* cmd.execute(); c0 remembers the content the call started from
CmdExecute ==
    LET r == CommandExecute(cmd, Doc)
    IN  /\ InBounds(r.doc)
        /\ SetDoc(r.doc)
        /\ cmd' = r.cmd
        /\ c0' = content
        /\ events' = r.events
        /\ last' = Call("cmd_execute", r.ret, "none", <<>>)
        /\ UNCHANGED <<enabled, mgrVars, trail, status>>

\* cmd.undo()
CmdUndo ==
    LET r == CommandUndo(cmd, Doc)
    IN  /\ InBounds(r.doc)
        /\ SetDoc(r.doc)
        /\ cmd' = r.cmd
        /\ events' = r.events
        /\ last' = Call("cmd_undo", r.ret, "none", <<>>)
        /\ UNCHANGED <<enabled, mgrVars, c0, trail, status>>

NextCmd == CmdExecute \/ CmdUndo

SpecCmd == InitCmd /\ [][NextCmd]_vars

(* ------------ the Document and a command driven together --------------- *)
\* a Document with some content and one command constructed on it; the
\* document is then called directly and through the command
InitEdit ==
    /\ content \in Contents
    /\ modified = FALSE
    /\ edit_count = 0
    /\ read_only \in BOOLEAN
    /\ validation = "none"
    /\ filepath = "none"
    /\ observers = EditorObservers
    /\ enabled = AllEnabled
    /\ history = <<>>
    /\ current_index = -1
    /\ max_history = MAX_UNDO_HISTORY
    /\ events = <<>>
    /\ delivered = <<>>
    /\ last = NoCall
    /\ cmd \in {NewInsert(1, <<"{">>), NewDelete(0, 1)}
    /\ c0 = content
    /\ trail = <<>>
    /\ status = NewStatus

NextEdit == NextDoc \/ NextCmd

SpecEdit == InitEdit /\ [][NextEdit]_vars

(* -------------------- round trips through the history ------------------ *)
\* the contents the round trips start from
StartContents == {<<>>, <<"}">>}
\* the text handed to insert_text in the round trips
TripTexts == {<<"{">>}
\* the positions handed to insert_text and delete_text in the round trips
TripPositions == 0 .. MaxLen

\* an Editor whose document starts with some content; trail[i + 1] is the
\* content the document had when the cursor stood at index i - 1, that is
\* after history[i] and before history[i + 1] were executed
InitHist ==
    /\ content \in StartContents
    /\ modified = FALSE
    /\ edit_count = 0
    /\ read_only = FALSE
    /\ validation = "none"
    /\ filepath = "none"
    /\ observers = EditorObservers
    /\ enabled = AllEnabled
    /\ history = <<>>
    /\ current_index = -1
    /\ max_history = MAX_UNDO_HISTORY
    /\ events = <<>>
    /\ delivered = <<>>
    /\ last = NoCall
    /\ cmd = NewInsert(0, <<>>)
    /\ c0 = <<>>
    /\ trail = <<content>>
    /\ status = NewStatus

\* the outcome of a CommandManager call becomes the new state; a command
\* that was executed and recorded ends the trail after the cursor it was
\* executed at, and evicted entries leave the trail with the history
TripStep(op, r) ==
    /\ Len(r.doc.content) <= MaxLen
    /\ r.doc.edit_count <= MaxTrip
    /\ SetDoc(r.doc)
    /\ SetManager(r.mgr)
    /\ events' = r.events
    /\ last' = Call(op, r.ret, "none", <<>>)
    /\ trail' = IF op \in {"insert_text", "delete_text"} /\ r.ret
                 THEN LET t == Append(SubSeq(trail, 1, current_index + 2),
                                      r.doc.content)
                      IN  SubSeq(t, Len(t) - Len(r.mgr.history), Len(t))
                 ELSE trail
    /\ UNCHANGED <<enabled, cmd, c0, status>>

\* Editor.insert_text(position, text)
TripInsertText(position, text) ==
    TripStep("insert_text",
             ManagerExecute(Manager, NewInsert(position, text), Doc))

\* Editor.delete_text(start, end)
TripDeleteText(start, end) ==
    TripStep("delete_text",
             ManagerExecute(Manager, NewDelete(start, end), Doc))

\* Editor.undo
TripUndo == TripStep("undo", ManagerUndo(Manager, Doc))

\* Editor.redo
TripRedo == TripStep("redo", ManagerRedo(Manager, Doc))

NextHist ==
    \/ \E p \in TripPositions, t \in TripTexts : TripInsertText(p, t)
    \/ \E s \in TripPositions, e \in TripPositions : TripDeleteText(s, e)
    \/ TripUndo
    \/ TripRedo

SpecHist == InitHist /\ [][NextHist]_vars

(* ------------------ composite commands in the history ------------------ *)
\* the commands added to a composite: inserts of one character and deletes
\* of one character, the last of each beyond any explored content
Children ==
    {NewInsert(p, <<"{">>) : p \in 0..(MaxLen + 1)}
    \cup {NewDelete(p, p + 1) : p \in 0..MaxLen}

\* an Editor whose document starts with some content
InitComp ==
    /\ content \in StartContents
    /\ modified = FALSE
    /\ edit_count = 0
    /\ read_only = FALSE
    /\ validation = "none"
    /\ filepath = "none"
    /\ observers = EditorObservers
    /\ enabled = AllEnabled
    /\ history = <<>>
    /\ current_index = -1
    /\ max_history = MAX_UNDO_HISTORY
    /\ NothingCalled

\* command_manager.execute(composite) with a fresh composite of two children
ExecuteComposite(a, b) ==
    ManagerStep("execute",
                ManagerExecute(Manager, NewComposite(<<a, b>>), Doc))

NextComp ==
    \/ \E a \in Children, b \in Children : ExecuteComposite(a, b)
    \/ Undo
    \/ Redo
    \/ \E v \in BOOLEAN : SetReadOnly(v)

SpecComp == InitComp /\ [][NextComp]_vars

(* ------------------- a composite driven directly ----------------------- *)
\* the composites built by add_command from at most two of the children
Groups ==
    {NewComposite(<<>>)}
    \cup {NewComposite(<<a>>) : a \in Children}
    \cup {NewComposite(<<a, b>>) : a \in Children, b \in Children}

\* a Document with some content and one composite constructed on it
InitGroup ==
    /\ content \in StartContents
    /\ modified = FALSE
    /\ edit_count = 0
    /\ read_only = FALSE
    /\ validation = "none"
    /\ filepath = "none"
    /\ observers = EditorObservers
    /\ enabled = AllEnabled
    /\ history = <<>>
    /\ current_index = -1
    /\ max_history = MAX_UNDO_HISTORY
    /\ events = <<>>
    /\ delivered = <<>>
    /\ last = NoCall
    /\ cmd \in Groups
    /\ c0 = content
    /\ trail = <<>>
    /\ status = NewStatus

NextGroup ==
    \/ CmdExecute
    \/ CmdUndo
    \/ \E v \in BOOLEAN : SetReadOnly(v)

SpecGroup == InitGroup /\ [][NextGroup]_vars

(* --------------------- the queries on the history ---------------------- *)
\* the query methods of CommandManager
Queries ==
    {"can_undo", "can_redo", "get_undo_description", "get_redo_description",
     "get_history_info", "get_history"}

\* a call of the query q; the value returned is kept in last
HistoryQuery(q) ==
    /\ last' = Call(q, TRUE, "none", QueryValue(q, Manager))
    /\ events' = <<>>
    /\ delivered' = <<>>
    /\ UNCHANGED <<docVars, mgrVars, cmdVars>>

NextQuery ==
    \/ InsertText(0, <<"{">>)
    \/ DeleteText(0, 1)
    \/ Undo
    \/ Redo
    \/ \E q \in Queries : HistoryQuery(q)
    \/ \E f \in Paths : DocumentMarkAsSaved(f)
    \/ \E f \in Paths, c \in Replacements : DocumentLoadFromFile(f, c)

SpecQuery == InitComp /\ [][NextQuery]_vars

(* ----------------------------- replace_text ---------------------------- *)
\* Editor.replace_text recording the two commands as one composite
EditorReplace_OneEntry(m, d, start, end, new_text) ==
    ManagerExecute(m, NewComposite(<<NewDelete(start, end),
                                     NewInsert(start, new_text)>>), d)

\* Editor.replace_text(start, end, new_text): delete_text, and insert_text
\* only when the delete went through
EditorReplace(m, d, start, end, new_text) ==
    LET del == ManagerExecute(m, NewDelete(start, end), d)
        ins == ManagerExecute(del.mgr, NewInsert(start, new_text), del.doc)
    IN  IF ~del.ret THEN del
        ELSE [ins EXCEPT !.events = del.events \o ins.events]

\* Editor.replace_text
ReplaceText(start, end, new_text) ==
    ManagerStep("replace_text",
                EditorReplace(Manager, Doc, start, end, new_text))

NextReplace ==
    \/ \E start, end \in Positions, new_text \in {<<"{">>, <<"byte">>} :
          ReplaceText(start, end, new_text)
    \/ Undo
    \/ Redo

SpecReplace == InitComp /\ [][NextReplace]_vars

(* ------------- a composite handed to the CommandManager ---------------- *)
\* the outcome r of command_manager.execute(composite) becomes the new
\* state; cmd is the caller's composite object as that call left it
GroupStep(r, composite) ==
    /\ InBounds(r.doc)
    /\ SetDoc(r.doc)
    /\ SetManager(r.mgr)
    /\ events' = r.events
    /\ last' = Call("execute_group", r.ret, "none", <<>>)
    /\ cmd' = composite
    /\ UNCHANGED <<enabled, c0, trail, status>>

\* command_manager.execute(g) with a composite g built for the call
ExecuteGroup(g) ==
    GroupStep(ManagerExecute(Manager, g, Doc), CommandExecute(g, Doc).cmd)

\* the children of those composites: an insert at the start, an insert
\* beyond any explored content, and a delete of the first character
Parts ==
    {NewInsert(0, <<"{">>), NewInsert(MaxLen + 1, <<"{">>), NewDelete(0, 1)}

NextPart ==
    \/ \E a \in Parts, b \in Parts : ExecuteGroup(NewComposite(<<a, b>>))
    \/ Undo
    \/ ClearHistory
    \/ \E v \in BOOLEAN : SetReadOnly(v)

SpecPart == InitComp /\ [][NextPart]_vars

(* ------------- a CommandManager constructed without a bound ------------ *)
\* CommandManager(max_history=None) under a new Editor's document
InitNone == Init /\ max_history = InitMaxHistory(0)

\* execute of composites without children, which succeed and leave the
\* document alone, and undo
NextNone ==
    \/ ExecuteGroup(NewComposite(<<>>))
    \/ Undo

SpecNone == InitNone /\ [][NextNone]_vars

(* ---------------------- the listener channel --------------------------- *)
\* the listener objects attached and detached in this specification
Pool == {"validator", "failing", "quitter"}

\* an Editor-like pairing of a fresh Document (no listener attached yet)
\* and a fresh CommandManager
InitSubj ==
    /\ NewDocument
    /\ observers = <<>>
    /\ enabled = AllEnabled
    /\ history = <<>>
    /\ current_index = -1
    /\ max_history = MAX_UNDO_HISTORY
    /\ NothingCalled

\* a call on the listener channel that notifies nobody; the value kept is
\* get_observers_count() before the call
ChannelStep(op) ==
    /\ events' = <<>>
    /\ delivered' = <<>>
    /\ last' = Call(op, TRUE, "none", <<Len(observers)>>)
    /\ UNCHANGED <<content, modified, edit_count, read_only, validation,
                   filepath, mgrVars, cmdVars>>

\* document.attach(observer)
Attach(observer) ==
    /\ observers' = Attached(observers, observer)
    /\ ChannelStep("attach")
    /\ UNCHANGED enabled

\* document.detach(observer)
Detach(observer) ==
    /\ observers' = Detached(observers, observer)
    /\ ChannelStep("detach")
    /\ UNCHANGED enabled

\* observer.enable()
Enable(observer) ==
    /\ enabled' = [enabled EXCEPT ![observer] = TRUE]
    /\ ChannelStep("enable")
    /\ UNCHANGED observers

\* observer.disable()
Disable(observer) ==
    /\ enabled' = [enabled EXCEPT ![observer] = FALSE]
    /\ ChannelStep("disable")
    /\ UNCHANGED observers

NextSubj ==
    \/ \E o \in Pool : Attach(o)
    \/ \E o \in Pool : Detach(o)
    \/ \E o \in Pool : Enable(o)
    \/ \E o \in Pool : Disable(o)
    \/ InsertText(0, <<"{">>)
    \/ Undo
    \/ Redo
    \/ \E f \in Paths : DocumentMarkAsSaved(f)

SpecSubj == InitSubj /\ [][NextSubj]_vars

(* ------------- listeners that change the list during update ----------- *)
\* the listener objects attached and detached in this specification
LivePool == {"quitter", "recruiter", "bouncer", "status"}

NextLive ==
    \/ \E o \in LivePool : Attach(o)
    \/ \E o \in LivePool : Detach(o)
    \/ \E f \in Paths : DocumentMarkAsSaved(f)

SpecLive == InitSubj /\ [][NextLive]_vars

(* ------------------- a StatusObserver driven directly ------------------ *)
\* status_observer.update(document, ev.type, ev)
UpdateStatus(ev) ==
    /\ status.last_event_time < MaxUpdates
    /\ status' = StatusUpdate(status, ev)
    /\ events' = <<>>
    /\ delivered' = <<>>
    /\ last' = Call("update", TRUE, "none", <<ev>>)
    /\ UNCHANGED <<docVars, mgrVars, cmd, c0, trail>>

\* the events of an editing session in the order they arrive: the file is
\* loaded, text is inserted, text is deleted, the file is saved
NextStatus ==
    \/ /\ status.last_event \in {"none", "loaded"}
       /\ \E f \in Paths :
             UpdateStatus([type |-> "loaded", operation |-> "none",
                           length |-> 0, filepath |-> f, size |-> MaxLen])
    \/ /\ status.last_event \in {"none", "loaded", "content_changed"}
       /\ status.status_message.kind # "deleted"
       /\ UpdateStatus([type |-> "content_changed", operation |-> "insert",
                        length |-> 1, filepath |-> "none", size |-> 0])
    \/ /\ status.last_event \in {"none", "loaded", "content_changed"}
       /\ UpdateStatus([type |-> "content_changed", operation |-> "delete",
                        length |-> 2, filepath |-> "none", size |-> 0])
    \/ \E f \in Paths :
          UpdateStatus([type |-> "saved", operation |-> "none",
                        length |-> 0, filepath |-> f, size |-> MaxLen])

SpecStatus == InitSubj /\ [][NextStatus]_vars

(* ------------------------ the validation listener ---------------------- *)
\* contents with blanks, handed to set_content and load_from_file
BlankTexts == {<<" ">>, <<"{", "}">>, <<" ", "{">>}

\* an Editor whose document also has a validator without auto-validation
InitVal ==
    /\ NewDocument
    /\ observers = <<"manual", "validator", "status">>
    /\ enabled = AllEnabled
    /\ history = <<>>
    /\ current_index = -1
    /\ max_history = MAX_UNDO_HISTORY
    /\ NothingCalled

\* the Document's operations, every event type among them
NextVal ==
    \/ DocumentInsert(0, <<"{">>)
    \/ DocumentInsert(1, <<"}">>)
    \/ DocumentDelete(0, 1)
    \/ \E c \in BlankTexts : DocumentSetContent(c)
    \/ \E f \in Paths, c \in BlankTexts : DocumentLoadFromFile(f, c)
    \/ \E f \in Paths : DocumentMarkAsSaved(f)
    \/ DocumentReset
    \/ Enable("validator")
    \/ Disable("validator")

SpecVal == InitVal /\ [][NextVal]_vars

\* the Editor's operations that change the content
NextVerdict ==
    \/ InsertText(0, <<"{">>)
    \/ InsertText(1, <<"}">>)
    \/ Undo
    \/ Redo
    \/ \E c \in BlankTexts : SetContent(c)
    \/ Enable("validator")
    \/ Disable("validator")

SpecVerdict == InitVal /\ [][NextVerdict]_vars

(* ------------------- documents opened and replaced --------------------- *)
\* Document(): a new instance with no listener attached
FreshDocument ==
    [content |-> <<>>, modified |-> FALSE, edit_count |-> 0,
     read_only |-> FALSE, validation |-> "none", filepath |-> "none",
     observers |-> <<>>, delivered |-> <<>>]

\* the three attach calls of Editor.new_document and Editor.open_file
AttachEditorObservers(d) ==
    [d EXCEPT !.observers =
        Attached(Attached(Attached(@, "validator"), "autosave"), "status")]

\* Editor.new_document
EditorNew(m, d) ==
    [ret |-> TRUE, mgr |-> ManagerClear(m),
     doc |-> AttachEditorObservers(FreshDocument), events |-> <<>>]

\* the end of Editor.open_file after a successful read: r is what
\* load_from_file did on the new document
EditorOpened(m, r) ==
    [ret |-> TRUE, mgr |-> ManagerClear(m), doc |-> r.doc,
     events |-> r.events]

\* open_file that clears the history before it looks at the read's outcome
EditorOpen_ClearFirst(m, d, path, read) ==
    IF ~read.success
    THEN [ret |-> FALSE, mgr |-> ManagerClear(m), doc |-> d, events |-> <<>>]
    ELSE EditorOpened(m, DocLoadFromFile(AttachEditorObservers(FreshDocument),
                                         path, read.content))

\* Editor.open_file(filepath); read is what FileManager.read_file returned
EditorOpen(m, d, path, read) ==
    IF ~read.success
    THEN [ret |-> FALSE, mgr |-> m, doc |-> d, events |-> <<>>]
    ELSE EditorOpened(m, DocLoadFromFile(AttachEditorObservers(FreshDocument),
                                         path, read.content))

\* what FileManager.read_file can return: a failure (no such file, no
\* permission, any other exception) or the text of the file
Reads ==
    {[success |-> FALSE, content |-> <<>>]}
    \cup {[success |-> TRUE, content |-> t] : t \in StartContents}

\* Editor.new_document()
EditorNewDocument == ManagerStep("new_document", EditorNew(Manager, Doc))

\* Editor.open_file(path)
OpenFile(path, read) ==
    ManagerStep("open_file", EditorOpen(Manager, Doc, path, read))

\* save_file that marks the document saved whether or not the write worked
EditorSave_MarkAlways(m, d, path, written) ==
    LET save_path == IF path # "none" THEN path ELSE d.filepath
        r == DocMarkAsSaved(d, save_path)
    IN  IF save_path = "none"
        THEN [ret |-> FALSE, mgr |-> m, doc |-> d, events |-> <<>>]
        ELSE [ret |-> written, mgr |-> m, doc |-> r.doc, events |-> r.events]

\* Editor.save_file(filepath); written is whether FileManager.write_file
\* succeeded (it returns False on PermissionError and any other exception)
EditorSave(m, d, path, written) ==
    LET save_path == IF path # "none" THEN path ELSE d.filepath
        r == DocMarkAsSaved(d, save_path)
    IN  IF save_path = "none" \/ ~written
        THEN [ret |-> FALSE, mgr |-> m, doc |-> d, events |-> <<>>]
        ELSE [ret |-> TRUE, mgr |-> m, doc |-> r.doc, events |-> r.events]

\* Editor.save_file(path)
SaveFile(path, written) ==
    ManagerStep("save_file", EditorSave(Manager, Doc, path, written))

\* Editor.__init__ with the default history bound
InitFile == Init /\ max_history = MAX_UNDO_HISTORY

NextFile ==
    \/ InsertText(0, <<"{">>)
    \/ Undo
    \/ \E k \in 1..Len(EditorObservers) : Detach(EditorObservers[k])
    \/ SetReadOnly(TRUE)
    \/ EditorNewDocument
    \/ \E f \in Paths, rd \in Reads : OpenFile(f, rd)
    \/ \E f \in Paths \cup {"none"}, w \in BOOLEAN : SaveFile(f, w)

SpecFile == InitFile /\ [][NextFile]_vars

(* ------------------------- formatting the content ---------------------- *)
\* the end of Editor.format_json: f is what FileManager.format_json
\* returned and r what Document.set_content(formatted) did
EditorFormatted(d, f, r) ==
    IF f.success
    THEN [ret |-> r.raised = "none", raised |-> r.raised, doc |-> r.doc,
          events |-> r.events]
    ELSE [ret |-> FALSE, raised |-> "none", doc |-> d, events |-> <<>>]

\* format_json that empties the document when the content is not JSON
EditorFormatJson_ClearOnFailure(d) ==
    LET f == FileFormatJson(d.content)
    IN  EditorFormatted(d, [f EXCEPT !.success = TRUE], DocSetContent(d, f.formatted))

\* Editor.format_json()
EditorFormatJson(d) ==
    LET f == FileFormatJson(d.content)
    IN  EditorFormatted(d, f, DocSetContent(d, f.formatted))

\* Editor.format_json(): its outcome becomes the new state
FormatJson ==
    LET r == EditorFormatJson(Doc)
    IN  /\ InBounds(r.doc)
        /\ SetDoc(r.doc)
        /\ events' = r.events
        /\ last' = Call("format_json", r.ret, r.raised, <<>>)
        /\ UNCHANGED <<enabled, mgrVars, cmdVars>>

\* contents handed to set_content: JSON with a blank before it, JSON, and
\* a text that is not JSON
FormatTexts == {<<" ", "1">>, <<"{", "}">>, <<"}">>}

NextFormat ==
    \/ InsertText(0, <<"{">>)
    \/ Undo
    \/ \E c \in FormatTexts : SetContent(c)
    \/ FormatJson
    \/ \E v \in BOOLEAN : SetReadOnly(v)

SpecFormat == InitFile /\ [][NextFormat]_vars

(* ------------------------------ properties ----------------------------- *)
\* the characters of s at the 0-based positions i .. j-1
Range(s, i, j) == [k \in 1..(j - i) |-> s[i + k]]

\* C1: for every content C of a writable document and every insert
\* (pos, text) with 0 <= pos <= len(C), InsertCommand.execute() returns
\* true, and the undo() called directly after it returns true and leaves
\* the content exactly C.
C1_InsertUndoInverse ==
    [][(/\ last.op = "cmd_execute"
        /\ cmd.kind = "insert"
        /\ ~read_only
        /\ 0 <= cmd.position /\ cmd.position <= Len(c0)
        /\ last'.op = "cmd_undo")
       => (/\ last.ret
           /\ content = Range(c0, 0, cmd.position) \o cmd.text
                        \o Range(c0, cmd.position, Len(c0))
           /\ last'.ret
           /\ content' = c0)]_vars

\* C1 witness: a text was inserted at the end of a non-empty content and
\* the undo directly after it has run.
C1_Witness ==
    /\ last.op = "cmd_undo" /\ last.ret
    /\ cmd.kind = "insert" /\ cmd.text = <<"{">> /\ cmd.position = 1
    /\ ~cmd.executed
    /\ content = <<"}">>
    /\ c0 = content
    /\ edit_count = 2

\* C2: for every content C and range 0 <= start <= end <= len(C),
\* DeleteCommand.execute() captures C[start:end] as deleted_text and removes
\* it, and the undo() called directly after it re-inserts exactly that text
\* at start, so the content is C again.
C2_DeleteUndoInverse ==
    [][(/\ last.op = "cmd_execute"
        /\ cmd.kind = "delete"
        /\ ~read_only
        /\ 0 <= cmd.position /\ cmd.position <= cmd.end_position
        /\ cmd.end_position <= Len(c0)
        /\ last'.op = "cmd_undo")
       => (/\ last.ret
           /\ cmd.deleted_text = Range(c0, cmd.position, cmd.end_position)
           /\ content = Range(c0, 0, cmd.position)
                        \o Range(c0, cmd.end_position, Len(c0))
           /\ last'.ret
           /\ cmd'.deleted_text = cmd.deleted_text
           /\ content' = c0)]_vars

\* C2 witness: the first character of "}{" was deleted and the undo directly
\* after it has put it back.
C2_Witness ==
    /\ last.op = "cmd_undo" /\ last.ret
    /\ cmd.kind = "delete" /\ cmd.position = 0 /\ cmd.end_position = 1
    /\ cmd.deleted_text = <<"}">>
    /\ ~cmd.executed
    /\ content = <<"}", "{">>
    /\ c0 = content
    /\ edit_count = 2

\* the calls that go through CommandManager.execute
ExecOps == {"insert_text", "delete_text"}

\* the class of the command an Editor call constructs
KindOf(op) == IF op = "insert_text" THEN "insert" ELSE "delete"

\* the document's own fields

\* C3: when the cursor is below the last index, a successful
\* CommandManager.execute(D) discards every entry after the cursor and then
\* appends D: the history is the old entries 0..cursor followed by D, the
\* cursor points at D, can_redo() is false, and a redo() called next returns
\* false and changes nothing.
C3_HistoryTruncation ==
    /\ [][(/\ last'.op \in ExecOps /\ last'.ret
           /\ current_index < Len(history) - 1)
          => (/\ Len(history') = current_index + 2
              /\ \A i \in 1..(current_index + 1) : history'[i] = history[i]
              /\ history'[current_index + 2].kind = KindOf(last'.op)
              /\ history'[current_index + 2].executed
              /\ current_index' = current_index + 1
              /\ ~CanRedo(Manager'))]_vars
    /\ [][(/\ last.op \in ExecOps /\ last.ret
           /\ last.pre_index < last.pre_len - 1
           /\ last'.op = "redo")
          => (/\ ~last'.ret
              /\ UNCHANGED <<history, current_index, docVars>>)]_vars

\* C3 witness: three commands were executed, the third undone, and a fourth
\* executed: the history holds three entries and the cursor is at the last.
C3_Witness ==
    /\ last.op \in ExecOps /\ last.ret
    /\ last.pre_index = 1 /\ last.pre_len = 3
    /\ Len(history) = 3 /\ current_index = 2
    /\ edit_count = 5

\* C4: with max_history = N the history never holds more than N entries; a
\* successful execute that makes the list N+k long removes the k oldest
\* entries and lowers the cursor by k, so after every successful execute the
\* cursor is len(history)-1 and points at the command just executed.
C4_BoundedHistory ==
    /\ [](Len(history) <= max_history /\ max_history >= 1)
    /\ [][(last'.op \in ExecOps /\ last'.ret)
          => LET n == current_index + 2
                 k == IF n > max_history THEN n - max_history ELSE 0
             IN  /\ Len(history') = n - k
                 /\ \A i \in 1..(n - k - 1) : history'[i] = history[i + k]
                 /\ current_index' = current_index + 1 - k
                 /\ current_index' = Len(history') - 1
                 /\ history'[Len(history')].kind = KindOf(last'.op)
                 /\ history'[Len(history')].executed]_vars

\* C4 witness: an execute on a full history of two entries evicted the oldest.
C4_Witness ==
    /\ last.op \in ExecOps /\ last.ret
    /\ max_history = 2
    /\ last.pre_len = 2 /\ last.pre_index = 1
    /\ Len(history) = 2 /\ current_index = 1

\* C5 as stated: with max history 2, after A, B, C the history is [B, C] with
\* the cursor at C; one undo() succeeds (back to B) and then can_undo() is
\* false.
C5_OneUndoOnly ==
    [][(/\ max_history = 2
        /\ last.op \in ExecOps /\ last.ret
        /\ last.pre_len = 2 /\ last.pre_index = 1
        /\ last'.op = "undo")
       => (last'.ret /\ current_index' = 0 /\ ~CanUndo(Manager'))]_vars

\* C5: with max history 2, executing C on the history [A, B] leaves [B, C]
\* with the cursor at C; the undo() called next succeeds and leaves the
\* cursor at B with can_undo() still true; a further successful undo() (of
\* B) leaves the cursor at -1, and only then is can_undo() false.
C5_TwoUndos ==
    /\ [][(/\ max_history = 2
           /\ Len(history) = 2 /\ current_index = 1
           /\ last'.op \in ExecOps /\ last'.ret)
          => (/\ Len(history') = 2
              /\ history'[1] = history[2]
              /\ history'[2].kind = KindOf(last'.op)
              /\ history'[2].executed
              /\ current_index' = 1)]_vars
    /\ [][(/\ max_history = 2
           /\ last.op \in ExecOps /\ last.ret
           /\ last.pre_len = 2 /\ last.pre_index = 1
           /\ last'.op = "undo")
          => (/\ last'.ret
              /\ current_index' = 0
              /\ Len(history') = 2
              /\ CanUndo(Manager'))]_vars
    /\ [][(/\ max_history = 2
           /\ Len(history) = 2 /\ current_index = 0
           /\ last'.op = "undo" /\ last'.ret)
          => (current_index' = -1 /\ ~CanUndo(Manager'))]_vars

\* C5 witness: after the eviction both remaining commands were undone.
C5_Witness ==
    /\ max_history = 2
    /\ last.op = "undo" /\ last.ret /\ last.pre_index = 0
    /\ Len(history) = 2 /\ current_index = -1
    /\ ~history[1].executed /\ ~history[2].executed
    /\ edit_count = 5

\* C6: -1 <= cursor <= len(history) - 1; the entries up to the cursor are the
\* executed ones (cursor -1: none is); can_undo() holds iff cursor >= 0 and
\* can_redo() holds iff cursor < len(history) - 1.
C6_CursorInvariant ==
    /\ -1 <= current_index
    /\ current_index <= Len(history) - 1
    /\ \A i \in 1..Len(history) : history[i].executed <=> (i - 1 <= current_index)
    /\ CanUndo(Manager) <=> (current_index >= 0)
    /\ CanRedo(Manager) <=> (current_index < Len(history) - 1)

\* C6 witness: every command of a two-entry history has been undone.
C6_Witness ==
    /\ Len(history) = 2 /\ current_index = -1
    /\ last.op = "undo" /\ last.ret
    /\ max_history = MAX_UNDO_HISTORY

\* C7: when the command's execute() returns false, CommandManager.execute
\* returns false and leaves the history list and the cursor exactly as they
\* were, redo branch included; the document is not changed either.  On a
\* read-only document every execute fails.
C7_FailedNotRecorded ==
    [][(last'.op \in ExecOps)
       => (/\ ~last'.ret => UNCHANGED <<history, current_index, docVars>>
           /\ ~last'.ret => events' = <<>>
           /\ read_only => ~last'.ret)]_vars

\* C7 witness: an execute failed on a writable document (a range error)
\* while a redo branch existed, and the branch is still there.
C7_Witness ==
    /\ last.op \in ExecOps /\ ~last.ret
    /\ ~read_only
    /\ current_index = 0 /\ Len(history) = 2
    /\ last.pre_index = 0 /\ last.pre_len = 2

\* the command's undo() can be applied to the content s
UndoFits(c, s) ==
    /\ 0 <= c.position
    /\ IF c.kind = "insert" THEN c.position + Len(c.text) <= Len(s)
       ELSE c.position <= Len(s)

\* the content the command's undo() makes of s
UndoResult(c, s) ==
    IF c.kind = "insert"
    THEN Range(s, 0, c.position) \o Range(s, c.position + Len(c.text), Len(s))
    ELSE Range(s, 0, c.position) \o c.deleted_text \o Range(s, c.position, Len(s))

\* C8: undo() with cursor -1 returns false and changes neither history,
\* cursor nor document and emits no event.  Otherwise it calls undo() on the
\* command at the cursor: on success the cursor goes down by exactly one and
\* true is returned; on failure false is returned with cursor, history and
\* document unchanged.  It succeeds exactly when the document is writable
\* and the command's range fits the content, so a retry after the cause of
\* a failure is removed succeeds on that same command.
C8_Undo ==
    [][(last'.op = "undo")
       => IF current_index = -1
          THEN /\ ~last'.ret
               /\ events' = <<>>
               /\ UNCHANGED <<history, current_index, docVars>>
          ELSE LET c == history[current_index + 1]
               IN  /\ last'.ret <=> (~read_only /\ UndoFits(c, content))
                   /\ last'.ret =>
                        /\ current_index' = current_index - 1
                        /\ history' = [history EXCEPT
                                         ![current_index + 1].executed = FALSE]
                        /\ content' = UndoResult(c, content)
                        /\ Len(events') = 1
                   /\ ~last'.ret =>
                        /\ events' = <<>>
                        /\ UNCHANGED <<history, current_index, docVars>>]_vars

\* C8 witness: an undo failed on a read-only document with a command at the
\* cursor, which stays where it was.
C8_Witness ==
    /\ last.op = "undo" /\ ~last.ret
    /\ read_only
    /\ current_index = 1 /\ last.pre_index = 1
    /\ history[2].executed

\* the command's execute() can be applied to the content s
ExecuteFits(c, s) ==
    /\ 0 <= c.position
    /\ IF c.kind = "insert" THEN c.position <= Len(s)
       ELSE c.position <= c.end_position /\ c.end_position <= Len(s)

\* the content the command's execute() makes of s
ExecuteResult(c, s) ==
    IF c.kind = "insert"
    THEN Range(s, 0, c.position) \o c.text \o Range(s, c.position, Len(s))
    ELSE Range(s, 0, c.position) \o Range(s, c.end_position, Len(s))

\* what identifies a command object: its class and constructor arguments
Identity(c) ==
    IF c.kind = "insert" THEN <<c.kind, c.position, c.text>>
    ELSE <<c.kind, c.position, c.end_position>>

\* C9: redo() with the cursor at the last index (the empty history included)
\* returns false and changes nothing.  Otherwise it calls execute() on the
\* command at cursor+1: the cursor goes up by exactly one only if that
\* execute succeeds; on failure false is returned and the cursor, the
\* history list and the document are unchanged.  redo never changes the
\* length or the order of the history.
C9_Redo ==
    [][(last'.op = "redo")
       => /\ Len(history') = Len(history)
          /\ \A i \in 1..Len(history) :
                Identity(history'[i]) = Identity(history[i])
          /\ IF current_index = Len(history) - 1
             THEN /\ ~last'.ret
                  /\ events' = <<>>
                  /\ UNCHANGED <<history, current_index, docVars>>
             ELSE LET c == history[current_index + 2]
                  IN  /\ last'.ret <=> (~read_only /\ ExecuteFits(c, content))
                      /\ last'.ret =>
                           /\ current_index' = current_index + 1
                           /\ history'[current_index + 2].executed
                           /\ content' = ExecuteResult(c, content)
                           /\ Len(events') = 1
                      /\ ~last'.ret =>
                           /\ events' = <<>>
                           /\ \A i \in 1..Len(history) :
                                 history'[i].executed = history[i].executed
                           /\ UNCHANGED <<current_index, docVars>>]_vars

\* C9 witness: a redo failed on a read-only document although a command
\* to redo existed, and the cursor did not move.
C9_Witness ==
    /\ last.op = "redo" /\ ~last.ret
    /\ read_only
    /\ current_index = 0 /\ last.pre_index = 0
    /\ Len(history) = 2 /\ ~history[2].executed

\* a call that raised left the document alone and notified no listener
Rejected ==
    /\ ~last'.ret
    /\ events' = <<>>
    /\ UNCHANGED <<content, modified, edit_count, validation, read_only>>

\* the position is outside [0, len(content)]
BadPosition(p) == p < 0 \/ p > Len(content)

\* the range is inverted or outside [0, len(content)]
BadBounds(s, e) == s > e \/ s < 0 \/ e > Len(content)

\* C10 as stated: Document.insert with a position outside [0, len] and
\* Document.delete / get_text with start > end, start < 0 or end > len raise
\* a range error, on any document, and change nothing.
C10_RangeErrorAlways ==
    [][/\ \A p \in Positions, t \in Texts :
            (DocumentInsert(p, t) /\ BadPosition(p))
            => (last'.raised = "ValueError" /\ Rejected)
       /\ \A s \in Positions, e \in Positions :
            (DocumentDelete(s, e) /\ BadBounds(s, e))
            => (last'.raised = "ValueError" /\ Rejected)
       /\ \A s \in Positions, e \in Positions :
            (DocumentGetText(s, e) /\ BadBounds(s, e))
            => (last'.raised = "ValueError" /\ Rejected)]_vars

\* C10: Document.insert with a position outside [0, len] and
\* Document.delete with start > end, start < 0 or end > len raise before any
\* mutation: the range error on a writable document, the read-only error
\* (checked first) on a read-only one; get_text with such a range raises the
\* range error on either.  Content, modified flag and edit counter are
\* unchanged and no listener is notified.
C10_RangeRejection ==
    [][/\ \A p \in Positions, t \in Texts :
            (DocumentInsert(p, t) /\ BadPosition(p))
            => /\ last'.raised = IF read_only THEN "RuntimeError"
                                 ELSE "ValueError"
               /\ Rejected
       /\ \A s \in Positions, e \in Positions :
            (DocumentDelete(s, e) /\ BadBounds(s, e))
            => /\ last'.raised = IF read_only THEN "RuntimeError"
                                 ELSE "ValueError"
               /\ Rejected
       /\ \A s \in Positions, e \in Positions :
            (DocumentGetText(s, e) /\ BadBounds(s, e))
            => (last'.raised = "ValueError" /\ Rejected)]_vars

\* C10 witness: a delete was rejected with the range error on a writable,
\* already edited, non-empty document.
C10_Witness ==
    /\ last.op = "delete" /\ last.raised = "ValueError" /\ ~last.ret
    /\ ~read_only
    /\ content # <<>>
    /\ edit_count > 0 /\ modified
    /\ events = <<>>

\* the Document operations that change the document
MutatingOps ==
    {"insert", "delete", "set_content", "clear", "load_from_file", "reset",
     "mark_as_saved"}

\* C11: while read_only is true, every mutating Document operation (insert,
\* delete, set_content, clear, load_from_file, reset, mark_as_saved) fails
\* and leaves content, modified flag, edit counter, file path and validation
\* result unchanged, and no listener is notified.
C11_ReadOnlyProtection ==
    [][(read_only /\ last'.op \in MutatingOps)
       => (/\ ~last'.ret
           /\ UNCHANGED <<content, modified, edit_count, filepath, validation>>
           /\ events' = <<>>
           /\ delivered' = <<>>)]_vars

\* C12: the edit counter never decreases across Document operations
\* (insert, delete, set_content, clear, load_from_file, mark_as_saved,
\* reset) and command execute / undo / redo.
C12_EditCountMonotone == [][edit_count' >= edit_count]_vars

\* the calls that edit the content through insert, delete or set_content
EditOps ==
    {"insert", "delete", "set_content", "clear", "cmd_execute", "cmd_undo"}

\* C13 (as the specification states it): every successful insert, delete,
\* set_content and load_from_file, also when performed by a command's undo
\* or redo, strictly increases the edit counter; a failed operation leaves
\* it unchanged.
C13_EveryMutationCounts ==
    [][/\ (last'.op \in EditOps \cup {"load_from_file"} /\ last'.ret)
           => edit_count' > edit_count
       /\ (last'.op \in EditOps \cup {"load_from_file"} /\ ~last'.ret)
           => edit_count' = edit_count]_vars

\* C13 (amended): every successful insert, delete, set_content and clear,
\* also when performed by a command's execute (redo) or undo, increases the
\* edit counter by exactly one; load_from_file replaces the content and
\* leaves the edit counter as it was; a failed operation leaves it unchanged.
C13_EditsCount ==
    [][/\ (last'.op \in EditOps /\ last'.ret)
           => edit_count' = edit_count + 1
       /\ last'.op = "load_from_file"
           => (last'.ret /\ edit_count' = edit_count)
       /\ (last'.op \in EditOps /\ ~last'.ret)
           => edit_count' = edit_count]_vars

\* a command's undo has succeeded on a document loaded from a file, and the
\* only edits counted are the command's execute and undo
C13_Witness ==
    /\ last.op = "cmd_undo"
    /\ last.ret
    /\ filepath = "a.json"
    /\ edit_count = 2

\* the listeners that received the last notification, in order of the calls
Receivers(dlv) == [k \in 1..Len(dlv) |-> dlv[k].observer]

\* C14: a notification is delivered exactly once to every attached listener
\* whose enabled flag is true, in the order the listeners were attached, and
\* to no detached or disabled listener.
C14_DeliveryOrder ==
    [][events' # <<>>
       => Receivers(delivered')
              = SelectSeq(observers, LAMBDA o : enabled[o])]_vars

\* listener a comes before listener b in the list obs
Before(obs, a, b) ==
    \E i \in 1..Len(obs), j \in 1..Len(obs) :
        i < j /\ obs[i] = a /\ obs[j] = b

\* C15: when a listener raises during update, every enabled listener
\* attached after it still receives the same event, the mutation stays
\* applied, and the Document call, the command and the CommandManager call
\* report success (the cursor moves).
C15_ListenerIsolation ==
    [][(\E k \in 1..Len(delivered') : delivered'[k].raised)
       => (/\ last'.ret
           /\ last'.raised = "none"
           /\ \A k \in 1..Len(delivered') :
                  /\ delivered'[k].content = content'
                  /\ delivered'[k].edit_count = edit_count'
           /\ last'.op = "insert_text"
                  => (/\ current_index' = current_index + 1
                      /\ content' = <<"{">> \o content
                      /\ history'[current_index' + 1].executed)
           /\ last'.op = "undo"
                  => (/\ current_index' = current_index - 1
                      /\ content' = Tail(content)
                      /\ ~history'[current_index + 1].executed)
           /\ \A o \in Listeners :
                  (Before(observers, "failing", o) /\ enabled[o])
                  => Before(Receivers(delivered'), "failing", o))]_vars

\* listener o is in the list obs
Has(obs, o) == \E k \in 1..Len(obs) : obs[k] = o

\* C16: attaching an attached listener and detaching an unattached one
\* leave the observer list (membership and order) unchanged; attach appends
\* a new listener at the end, detach removes it and keeps the order of the
\* others; the list never contains a listener twice.
C16_AttachDetachIdempotent ==
    /\ [](\A i \in 1..Len(observers), j \in 1..Len(observers) :
             observers[i] = observers[j] => i = j)
    /\ [][\A o \in Pool :
             /\ (Attach(o) /\ Has(observers, o)) => observers' = observers
             /\ (Attach(o) /\ ~Has(observers, o))
                    => observers' = Append(observers, o)
             /\ (Detach(o) /\ ~Has(observers, o)) => observers' = observers
             /\ (Detach(o) /\ Has(observers, o))
                    => (/\ ~Has(observers', o)
                        /\ \A a \in Pool \ {o}, b \in Pool \ {o} :
                               Before(observers', a, b)
                                   <=> Before(observers, a, b))]_vars

\* attach was called with all three listeners already attached, and the
\* list still holds exactly these three
C16_Witness ==
    /\ last.op = "attach"
    /\ last.value = <<3>>
    /\ Len(observers) = 3

\* the calls that notify when they succeed
NotifyingOps ==
    {"insert", "delete", "set_content", "clear", "load_from_file",
     "mark_as_saved", "cmd_execute", "cmd_undo"}

\* C17: every listener invocation caused by insert, delete, set_content,
\* load_from_file or mark_as_saved, called directly or by a command, takes
\* place inside that call, after content, modified flag and edit counter
\* have been updated: each attached listener is invoked once before the call
\* returns and reads the values the call leaves behind; a call that fails
\* invokes nobody.
C17_SynchronousDelivery ==
    [][last'.op \in NotifyingOps
       => IF last'.ret
          THEN /\ Len(events') = 1
               /\ Receivers(delivered') = observers
               /\ \A k \in 1..Len(delivered') :
                      /\ delivered'[k].type = events'[1].type
                      /\ delivered'[k].content = content'
                      /\ delivered'[k].modified = modified'
                      /\ delivered'[k].edit_count = edit_count'
          ELSE delivered' = <<>>]_vars

\* a command's execute has changed the content, and the three listeners
\* were invoked during the call and read the new content
C17_Witness ==
    /\ last.op = "cmd_execute"
    /\ last.ret
    /\ content # c0
    /\ Len(delivered) = 3
    /\ \A k \in 1..3 : delivered[k].content = content

\* C18: with no mutation outside the history, from any starting content:
\* the content is always the one recorded for the cursor's position, so
\* each successful undo restores the content that existed just before the
\* command at the cursor was executed, each successful redo the content
\* that existed just after it, and k undos followed by k redos give back
\* the content they started from.
C18_RoundTrip ==
    /\ [](/\ Len(trail) = Len(history) + 1
           /\ content = trail[current_index + 2])
    /\ [][((last'.op = "undo" /\ last'.ret)
              => (/\ current_index' = current_index - 1
                  /\ content' = trail[current_index + 1]
                  /\ trail' = trail))
           /\ ((last'.op = "redo" /\ last'.ret)
                 => (/\ current_index' = current_index + 1
                     /\ content' = trail[current_index + 3]
                     /\ trail' = trail))]_vars

\* two commands (an insert, then a delete) were executed, both undone and
\* both redone: six edits, the cursor back at the top of the history and
\* the content back at the one after the second command
C18_Witness ==
    /\ last.op = "redo"
    /\ last.ret
    /\ edit_count = 6
    /\ Len(history) = 2
    /\ current_index = 1
    /\ history[1].kind = "insert"
    /\ history[2].kind = "delete"
    /\ trail[1] # trail[2]
    /\ trail[2] # trail[3]
    /\ content = trail[3]

\* C19: in every state reached through the Editor's operations, every
\* command above the cursor can be redone: whenever can_redo() is true on a
\* document that is not read-only, redo() returns true.
C19_RedoAlwaysSucceeds ==
    [][(last'.op = "redo" /\ CanRedo(Manager) /\ ~read_only)
       => last'.ret]_vars

\* the executed flags, at the time of the call, of the children whose
\* undo() the loop of CompositeCommand.undo invokes from child i down
RECURSIVE UndoneFlags(_, _, _)
UndoneFlags(children, d, i) ==
    IF i < 1 THEN <<>>
    ELSE LET r == ChildUndo(children[i], d)
         IN  <<children[i].executed>>
             \o (IF r.ret THEN UndoneFlags(children, r.doc, i - 1) ELSE <<>>)

\* the executed flags, at the time of the call, of the children whose
\* execute() the loop of CompositeCommand.execute invokes from child i on
RECURSIVE ExecutedFlags(_, _, _)
ExecutedFlags(children, d, i) ==
    IF i > Len(children) THEN <<>>
    ELSE LET r == ChildExecute(children[i], d)
         IN  <<children[i].executed>>
             \o (IF r.ret THEN ExecutedFlags(children, r.doc, i + 1)
                  ELSE <<>>)

\* the flags of the command c and of its children met by c.undo()
UndoInvoked(c, d) ==
    <<c.executed>>
    \o (IF c.kind = "composite"
        THEN UndoneFlags(c.children, d, Len(c.children)) ELSE <<>>)

\* the flags of the command c and of its children met by c.execute()
ExecuteInvoked(c, d) ==
    <<c.executed>>
    \o (IF c.kind = "composite"
        THEN ExecutedFlags(c.children, d, 1) ELSE <<>>)

\* C20: in any sequence of CommandManager execute (fresh commands), undo
\* and redo calls, also when a failed undo or redo is retried, undo() is
\* only invoked on a command (or a composite's child) whose executed flag
\* is true, and execute() only on one whose executed flag is false.
C20_CommandSequencing ==
    [][/\ (last'.op = "undo" /\ CanUndo(Manager))
          => LET flags == UndoInvoked(history[current_index + 1], Doc)
             IN  \A k \in 1..Len(flags) : flags[k]
       /\ (last'.op = "redo" /\ CanRedo(Manager))
          => LET flags == ExecuteInvoked(history[current_index + 2], Doc)
             IN  \A k \in 1..Len(flags) : ~flags[k]]_vars

\* the document after the first j children were executed one after another
RECURSIVE AfterChildren(_, _, _)
AfterChildren(children, d, j) ==
    IF j = 0 THEN d
    ELSE ChildExecute(children[j], AfterChildren(children, d, j - 1)).doc

\* the first j children all execute successfully, one after another
Succeeded(children, d, j) ==
    \A k \in 1..j :
        ChildExecute(children[k], AfterChildren(children, d, k - 1)).ret

\* how many children execute successfully before the first failure
LeadingSuccesses(children, d) ==
    CHOOSE j \in 0..Len(children) :
        /\ Succeeded(children, d, j)
        /\ j < Len(children) => ~Succeeded(children, d, j + 1)

\* C21: CompositeCommand.execute() runs its children in insertion order and
\* stops at the first child whose execute() returns false: it returns true
\* exactly when every child succeeded (an empty composite succeeds), the
\* document holds the changes of the children before the failing one (no
\* rollback, one event and one edit each), the children after the failing
\* one are left as they were, and the composite's executed flag becomes
\* true when every child succeeded and is left unchanged otherwise.
C21_CompositeExecute ==
    [][(last'.op = "cmd_execute" /\ cmd.kind = "composite")
       => LET n == Len(cmd.children)
              j == LeadingSuccesses(cmd.children, Doc)
          IN  /\ last'.ret = (j = n)
              /\ content' = AfterChildren(cmd.children, Doc, j).content
              /\ edit_count' = edit_count + j
              /\ Len(events') = j
              /\ \A k \in 1..j : cmd'.children[k].executed
              /\ \A k \in (j + 1)..n :
                    cmd'.children[k].executed = cmd.children[k].executed
              /\ \A k \in (j + 2)..n : cmd'.children[k] = cmd.children[k]
              /\ cmd'.executed = (IF j = n THEN TRUE ELSE cmd.executed)]_vars

\* a composite of two whose second child failed after the first one had
\* changed the document
C21_Witness ==
    /\ last.op = "cmd_execute"
    /\ ~last.ret
    /\ cmd.kind = "composite"
    /\ Len(cmd.children) = 2
    /\ cmd.children[1].executed
    /\ ~cmd.children[2].executed
    /\ ~cmd.executed
    /\ content # c0
    /\ Len(events) = 1

\* the document after the last j children were undone, the last one first
RECURSIVE AfterUndone(_, _, _)
AfterUndone(children, d, j) ==
    IF j = 0 THEN d
    ELSE ChildUndo(children[Len(children) - j + 1],
                   AfterUndone(children, d, j - 1)).doc

\* the last j children are all undone successfully, the last one first
Undone(children, d, j) ==
    \A k \in 1..j :
        ChildUndo(children[Len(children) - k + 1],
                  AfterUndone(children, d, k - 1)).ret

\* how many children are undone successfully before the first failure
TrailingSuccesses(children, d) ==
    CHOOSE j \in 0..Len(children) :
        /\ Undone(children, d, j)
        /\ j < Len(children) => ~Undone(children, d, j + 1)

\* C22: CompositeCommand.undo() undoes its children in the reverse of their
\* execution order and stops at the first child whose undo() fails: it
\* returns true exactly when every child was undone, the document holds
\* the undos made before the failing one, the children before the failing
\* one in insertion order are left as they were, and on failure the
\* executed flag is left as it was (true for an executed composite). When
\* execute() succeeded and undo() is the next call, undo() succeeds and
\* the content is the one execute() started from.
C22_CompositeUndo ==
    [][(last'.op = "cmd_undo" /\ cmd.kind = "composite")
       => LET n == Len(cmd.children)
              j == TrailingSuccesses(cmd.children, Doc)
          IN  /\ last'.ret = (j = n)
              /\ content' = AfterUndone(cmd.children, Doc, j).content
              /\ edit_count' = edit_count + j
              /\ \A k \in 1..(n - j - 1) : cmd'.children[k] = cmd.children[k]
              /\ \A k \in (n - j + 1)..n : ~cmd'.children[k].executed
              /\ cmd'.executed = (IF j = n THEN FALSE ELSE cmd.executed)
              /\ (last.op = "cmd_execute" /\ last.ret)
                 => (last'.ret /\ content' = c0)]_vars

\* a composite of an insert and a delete, executed and then undone, back
\* on the content it started from
C22_Witness ==
    /\ last.op = "cmd_undo"
    /\ last.ret
    /\ cmd.kind = "composite"
    /\ Len(cmd.children) = 2
    /\ cmd.children[1].kind = "insert"
    /\ cmd.children[2].kind = "delete"
    /\ cmd.children[1].position # cmd.children[2].position
    /\ ~cmd.executed
    /\ edit_count = 4
    /\ content = c0
    /\ content # <<>>

\* the composite c as it was built: no child executed yet
Fresh(c) ==
    NewComposite([k \in 1..Len(c.children) |->
                    IF c.children[k].kind = "insert"
                    THEN NewInsert(c.children[k].position, c.children[k].text)
                    ELSE NewDelete(c.children[k].position,
                                   c.children[k].end_position)])

\* C23: CommandManager.execute of a composite whose j-th child fails
\* returns false and leaves the history list and the cursor as they were
\* (nothing is recorded that could undo anything), while the document
\* keeps the changes of children 1..j-1; the composite has its executed
\* flag false, the flags of those children true and the flags of the
\* others false.
C23_PartialComposite ==
    [][last'.op = "execute_group"
       => LET c == Fresh(cmd')
              n == Len(c.children)
              j == LeadingSuccesses(c.children, Doc)
          IN  j < n
              => /\ ~last'.ret
                 /\ history' = history
                 /\ current_index' = current_index
                 /\ content' = AfterChildren(c.children, Doc, j).content
                 /\ edit_count' = edit_count + j
                 /\ modified' = (modified \/ j > 0)
                 /\ ~cmd'.executed
                 /\ \A k \in 1..n : cmd'.children[k].executed = (k <= j)]_vars

\* the first child of a composite changed the document, the second one
\* failed, and there is nothing in the history to undo
C23_Witness ==
    /\ last.op = "execute_group"
    /\ ~last.ret
    /\ Len(cmd.children) = 2
    /\ cmd.children[1].executed
    /\ ~cmd.children[2].executed
    /\ ~cmd.executed
    /\ Len(history) = 0
    /\ ~CanUndo(Manager)
    /\ edit_count = 1
    /\ modified

\* C24: clear_history() empties the command list and resets the cursor to
\* -1, so that can_undo() and can_redo() are both false afterwards, and it
\* leaves the document untouched: content, modified flag, edit counter and
\* every other field are unchanged, no event is emitted and no listener is
\* called.
C24_ClearHistoryFrame ==
    [][last'.op = "clear_history"
       => /\ history' = <<>>
          /\ current_index' = -1
          /\ ~CanUndo(Manager')
          /\ ~CanRedo(Manager')
          /\ max_history' = max_history
          /\ UNCHANGED docVars
          /\ events' = <<>>
          /\ delivered' = <<>>]_vars

\* a history with an entry was cleared under a modified, non-empty document
C24_Witness ==
    /\ last.op = "clear_history"
    /\ last.pre_len >= 1
    /\ last.pre_index >= 0
    /\ history = <<>>
    /\ current_index = -1
    /\ content # <<>>
    /\ modified
    /\ edit_count >= 2

\* the fields of a Document just constructed and given the editor's three
\* listeners, in the next state
NewInstance ==
    /\ observers' = EditorObservers
    /\ edit_count' = 0
    /\ ~read_only'
    /\ validation' = "none"
    /\ ~modified'

\* C25: after Editor.new_document() or a successful Editor.open_file() the
\* history is empty with cursor -1 and the editor's document is a new
\* instance (fields as constructed; for open_file the content and path are
\* the file's, announced by one loaded event) with exactly the validator,
\* autosave and status listeners attached in that order; an open_file
\* whose read fails returns false and leaves the document, its content and
\* the history unchanged.
C25_NewAndOpen ==
    [][/\ (last'.op = "new_document")
          => (/\ history' = <<>> /\ current_index' = -1
              /\ NewInstance
              /\ content' = <<>> /\ filepath' = "none"
              /\ events' = <<>> /\ delivered' = <<>>)
       /\ \A f \in Paths, rd \in Reads :
            OpenFile(f, rd)
            => (/\ last'.ret = rd.success
                /\ rd.success
                   => (/\ history' = <<>> /\ current_index' = -1
                       /\ NewInstance
                       /\ content' = rd.content /\ filepath' = f
                       /\ Len(events') = 1 /\ events'[1].type = "loaded"
                       /\ Receivers(delivered') = EditorObservers)
                /\ ~rd.success
                   => (/\ UNCHANGED <<docVars, mgrVars>>
                       /\ events' = <<>> /\ delivered' = <<>>))]_vars

\* a file was opened over an edited document that had lost listeners and
\* had a history: the new document has the three listeners again
C25_Witness ==
    /\ last.op = "open_file"
    /\ last.ret
    /\ last.pre_len >= 1
    /\ history = <<>>
    /\ current_index = -1
    /\ observers = EditorObservers
    /\ content # <<>>
    /\ filepath \in Paths
    /\ edit_count = 0

\* C26: a CommandManager constructed with max_history=None keeps an
\* unbounded history: a successful execute keeps every entry up to the
\* cursor and appends the new command, so none is ever evicted.
C26_UnboundedHistory ==
    [][(last'.op = "execute_group" /\ last'.ret)
       => /\ Len(history') = current_index + 2
          /\ current_index' = current_index + 1
          /\ \A k \in 1..(current_index + 1) : history'[k] = history[k]]_vars

\* the update calls of the last operation in which a validation ran
ValidationRuns(dlv) == {k \in 1..Len(dlv) : dlv[k].result # "none"}

\* C27: the validation listener re-validates only on content_changed: an
\* operation makes one validation run (one more validation_count, the
\* result kept on the listener and stored on the document) when it emits
\* content_changed and the auto-validating listener is attached and
\* enabled, and none otherwise; loaded, saved and reset events never start
\* one, and a listener with auto-validation off never validates.
C27_ValidateOnContentChanged ==
    [][LET runs == ValidationRuns(delivered')
           due == /\ Len(events') = 1
                  /\ events'[1].type = "content_changed"
                  /\ Has(observers, "validator")
                  /\ enabled["validator"]
       IN  /\ Cardinality(runs) = (IF due THEN 1 ELSE 0)
           /\ \A k \in runs : /\ delivered'[k].observer = "validator"
                              /\ delivered'[k].type = "content_changed"
                              /\ delivered'[k].result = validation'
           /\ (~due /\ last'.op # "reset") => validation' = validation
           /\ (last'.op = "reset" /\ last'.ret) => validation' = "none"]_vars

\* a loaded event reached the enabled validator of a document whose last
\* verdict was "invalid": no validation ran, the verdict is still there
\* although the loaded content is valid
C27_Witness ==
    /\ last.op = "load_from_file"
    /\ Len(delivered) = 3
    /\ delivered[2].observer = "validator"
    /\ delivered[2].type = "loaded"
    /\ ValidationRuns(delivered) = {}
    /\ validation = "invalid"
    /\ content = <<"{", "}">>

\* every character of s is a blank
AllBlank(s) == \A k \in 1..Len(s) : s[k] = " "

\* s is a JSON text between blanks: an opening brace, blanks and a closing
\* brace, or a run of digits
IsJson(s) ==
    \E i \in 1..Len(s), j \in 1..Len(s) :
        \/ /\ i < j
           /\ s[i] = "{"
           /\ s[j] = "}"
           /\ \A k \in 1..Len(s) : k \notin {i, j} => s[k] = " "
        \/ /\ i <= j
           /\ \A k \in i..j : s[k] = "1"
           /\ \A k \in 1..Len(s) : k \notin i..j => s[k] = " "

C29_FormatBypassesHistory ==
    [][(last'.op \in {"set_content", "format_json"})
       => /\ UNCHANGED <<history, current_index, max_history>>
          /\ last'.ret
             => /\ Len(events') = 1
                /\ events'[1].type = "content_changed"
                /\ events'[1].full_replace
                /\ events'[1].old_content = content
                /\ events'[1].new_content = content'
                /\ edit_count' = edit_count + 1
                /\ modified'
          /\ (last'.op = "format_json" /\ last'.ret)
             => (IsJson(content) /\ IsJson(content')
                 /\ \A k \in 1..Len(content') : content'[k] # " ")
          /\ (last'.op = "format_json" /\ ~IsJson(content))
             => (/\ ~last'.ret /\ last'.raised = "none"
                 /\ UNCHANGED docVars
                 /\ events' = <<>> /\ delivered' = <<>>)]_vars

\* format_json rewrote the content of a document with an undone command in
\* its history, and the history is still there
C29_Witness ==
    /\ last.op = "format_json"
    /\ last.ret
    /\ events[1].old_content = <<" ", "1">>
    /\ content = <<"1">>
    /\ Len(history) = 1
    /\ current_index = -1

\* C30: load_from_file(path, text) sets the content to text, resets the
\* modified flag and emits exactly one loaded event and no content_changed
\* event; mark_as_saved clears the modified flag, leaves the content
\* unchanged and emits exactly one saved event. Consequently is_modified is
\* true exactly when the last state-changing operation was an insert,
\* delete or set_content rather than a load, save or reset: each of the
\* former that succeeds sets it, each of the latter that succeeds clears
\* it, and no other call and no failed call changes it.
C30_LoadSaveModified ==
    [][/\ \A f \in Paths, c \in Replacements :
            DocumentLoadFromFile(f, c)
            => /\ content' = c /\ filepath' = f
               /\ events' = <<[type |-> "loaded", filepath |-> f,
                               size |-> Len(c)]>>
               /\ edit_count' = edit_count
       /\ (last'.op = "mark_as_saved")
          => /\ content' = content
             /\ Len(events') = 1
             /\ events'[1].type = "saved"
             /\ edit_count' = edit_count
       /\ (last'.op \in {"insert", "delete", "set_content", "clear"}
           /\ last'.ret) => modified'
       /\ (last'.op \in {"load_from_file", "mark_as_saved", "reset"}
           /\ last'.ret) => ~modified'
       /\ (\/ ~last'.ret
           \/ last'.op \notin {"insert", "delete", "set_content", "clear",
                               "load_from_file", "mark_as_saved", "reset"})
          => modified' = modified]_vars

\* a text was loaded into an edited document: the flag is clear, the edits
\* are still counted
C30_Witness ==
    /\ last.op = "load_from_file"
    /\ last.ret
    /\ ~modified
    /\ edit_count >= 1
    /\ content # <<>>
    /\ filepath \in Paths
    /\ Len(events) = 1
    /\ events[1].type = "loaded"

\* C31: Editor.save_file returns false and leaves the document unchanged
\* (modified flag, file path and everything else) with no saved event when
\* no path is known or when the write fails; a successful write clears the
\* modified flag, records the path, keeps the content and emits exactly
\* one saved event. The history is never touched and no exception leaves
\* the call.
C31_SaveErrorHandling ==
    [][\A f \in Paths \cup {"none"}, w \in BOOLEAN :
          SaveFile(f, w)
          => LET save_path == IF f # "none" THEN f ELSE filepath
             IN  /\ last'.raised = "none"
                 /\ UNCHANGED mgrVars
                 /\ last'.ret = (save_path # "none" /\ w)
                 /\ ~last'.ret
                    => (/\ UNCHANGED docVars
                        /\ events' = <<>> /\ delivered' = <<>>)
                 /\ last'.ret
                    => (/\ ~modified'
                        /\ filepath' = save_path
                        /\ content' = content
                        /\ edit_count' = edit_count
                        /\ Len(events') = 1
                        /\ events'[1].type = "saved"
                        /\ events'[1].filepath = save_path)]_vars

\* the write of an edited document with a known path failed: the document
\* is still modified
C31_Witness ==
    /\ last.op = "save_file"
    /\ ~last.ret
    /\ modified
    /\ filepath \in Paths
    /\ edit_count >= 1
    /\ events = <<>>

\* C32: Document.insert(position, text) on a writable document with
\* 0 <= position <= len(C) yields C[:position] + text + C[position:] (the
\* length grows by len(text)), sets the modified flag and emits exactly one
\* content_changed event with operation insert, the position, the text and
\* length = len(text).
C32_InsertEffect ==
    [][\A p \in Positions, t \in Texts :
          (DocumentInsert(p, t) /\ ~read_only /\ ~BadPosition(p))
          => /\ last'.ret
             /\ Len(content') = Len(content) + Len(t)
             /\ \A k \in 1..Len(content') :
                   content'[k] = IF k <= p THEN content[k]
                                 ELSE IF k <= p + Len(t) THEN t[k - p]
                                 ELSE content[k - Len(t)]
             /\ modified'
             /\ events' = <<[type |-> "content_changed",
                             operation |-> "insert", position |-> p,
                             text |-> t, length |-> Len(t)]>>]_vars

\* a character was inserted in front of the content
C32_Witness ==
    /\ last.op = "insert"
    /\ last.ret
    /\ Len(events) = 1
    /\ events[1].position = 0
    /\ events[1].text = <<"{">>
    /\ content = <<"{", "}">>
    /\ modified

\* C33: Document.delete(start, end) on a writable document with
\* 0 <= start <= end <= len(C) yields C[:start] + C[end:] (the length
\* shrinks by end - start), sets the modified flag and emits exactly one
\* content_changed event with operation delete, start, end, deleted_text
\* = C[start:end] and length = end - start; get_text(start, end) with such
\* a range returns C[start:end], changes no state and emits no event, also
\* on a read-only document.
C33_DeleteAndGetText ==
    [][\A s \in Positions, e \in Positions :
          LET piece == [k \in 1..(e - s) |-> content[s + k]]
          IN  /\ (DocumentDelete(s, e) /\ ~read_only /\ ~BadBounds(s, e))
                 => /\ last'.ret
                    /\ Len(content') = Len(content) - (e - s)
                    /\ \A k \in 1..Len(content') :
                          content'[k] = IF k <= s THEN content[k]
                                        ELSE content[k + (e - s)]
                    /\ modified'
                    /\ events' = <<[type |-> "content_changed",
                                    operation |-> "delete", start |-> s,
                                    end |-> e, deleted_text |-> piece,
                                    length |-> e - s]>>
              /\ (DocumentGetText(s, e) /\ ~BadBounds(s, e))
                 => /\ last'.ret
                    /\ last'.value = piece
                    /\ UNCHANGED docVars
                    /\ events' = <<>>
                    /\ delivered' = <<>>]_vars

\* the first of two characters was deleted and reported as deleted_text
C33_Witness ==
    /\ last.op = "delete"
    /\ last.ret
    /\ Len(events) = 1
    /\ events[1].start = 0
    /\ events[1].end = 1
    /\ events[1].deleted_text = <<"{">>
    /\ content = <<"}">>
    /\ modified

\* C34: the history queries (can_undo, can_redo, get_undo_description,
\* get_redo_description, get_history_info, get_history) never change the
\* history, the cursor or the document; get_undo_description returns the
\* description of the command at the cursor (None when the cursor is -1),
\* get_redo_description that of the command at cursor + 1 (None when there
\* is none), and get_history_info reports undo_count = cursor + 1 and
\* undo_count + redo_count = total_commands = len(history).
C34_QueriesArePure ==
    [][(last'.op \in Queries)
       => /\ UNCHANGED <<docVars, mgrVars>>
          /\ events' = <<>>
          /\ delivered' = <<>>
          /\ (last'.op = "can_undo")
             => last'.value = <<current_index >= 0>>
          /\ (last'.op = "can_redo")
             => last'.value = <<current_index < Len(history) - 1>>
          /\ (last'.op = "get_undo_description")
             => last'.value = (IF current_index = -1 THEN <<>>
                               ELSE Description(history[current_index + 1]))
          /\ (last'.op = "get_redo_description")
             => last'.value = (IF current_index + 2 > Len(history) THEN <<>>
                               ELSE Description(history[current_index + 2]))
          /\ (last'.op = "get_history_info")
             => LET info == last'.value[1]
                IN  /\ info.undo_count = current_index + 1
                    /\ info.total_commands = Len(history)
                    /\ info.undo_count + info.redo_count
                       = info.total_commands
          /\ (last'.op = "get_history")
             => Len(last'.value) = Len(history)]_vars

\* the redo description of a history whose second entry, a delete, was
\* undone
C34_Witness ==
    /\ last.op = "get_redo_description"
    /\ Len(history) = 2
    /\ current_index = 0
    /\ history[1].kind = "insert"
    /\ history[2].kind = "delete"
    /\ last.value = <<"delete", 1, 0>>

\* C35: in every state reached using only insert_text, delete_text, undo
\* and redo on a document that is never read-only and never changed
\* outside the history, undo() returns true whenever can_undo() is true
\* and redo() returns true whenever can_redo() is true.
C35_HistoryOnlyLiveness ==
    [][/\ (last'.op = "undo") => (last'.ret <=> current_index >= 0)
       /\ (last'.op = "redo")
          => (last'.ret <=> current_index < Len(history) - 1)]_vars

\* a delete that emptied the document was undone: its captured text is
\* back
C35_Witness ==
    /\ last.op = "undo"
    /\ last.ret
    /\ current_index = -1
    /\ Len(history) = 1
    /\ history[1].kind = "delete"
    /\ history[1].deleted_text = <<"}">>
    /\ content = <<"}">>
    /\ trail = <<content, <<>> >>

\* C36: undo does not check that the buffer still matches the command, so
\* also after the content was changed outside the history: on a writable
\* document, undo() of an Insert command succeeds iff position + len(text)
\* <= len(current content) and then removes whatever characters occupy
\* [position, position + len(text)); undo() of a Delete command succeeds
\* iff start <= len(current content) and then puts the captured text back
\* at start. The cursor is decremented in both cases.
C36_UndoIgnoresBuffer ==
    [][(last'.op = "undo" /\ current_index >= 0 /\ ~read_only)
       => LET c == history[current_index + 1]
              n == IF c.kind = "insert" THEN Len(c.text)
                   ELSE Len(c.deleted_text)
          IN  /\ (c.kind = "insert")
                 => /\ last'.ret <=> (c.position + n <= Len(content))
                    /\ last'.ret
                       => /\ Len(content') = Len(content) - n
                          /\ \A k \in 1..Len(content') :
                                content'[k] = IF k <= c.position
                                              THEN content[k]
                                              ELSE content[k + n]
              /\ (c.kind = "delete")
                 => /\ last'.ret <=> (c.position <= Len(content))
                    /\ last'.ret
                       => /\ Len(content') = Len(content) + n
                          /\ \A k \in 1..Len(content') :
                                content'[k] =
                                    IF k <= c.position THEN content[k]
                                    ELSE IF k <= c.position + n
                                    THEN c.deleted_text[k - c.position]
                                    ELSE content[k - n]
              /\ last'.ret => current_index' = current_index - 1
              /\ ~last'.ret => current_index' = current_index]_vars

\* an insert of "{" into the empty document was undone after set_content
\* had replaced the content by "}{": the undo removed the "}" and left a
\* content the document never had before the insert
C36_Witness ==
    /\ last.op = "undo"
    /\ last.ret
    /\ max_history = MAX_UNDO_HISTORY
    /\ edit_count = 3
    /\ Len(history) = 1
    /\ current_index = -1
    /\ history[1].kind = "insert"
    /\ history[1].text = <<"{">>
    /\ history[1].position = 0
    /\ content = <<"{">>

\* C37: Editor.replace_text is not atomic. A successful call records two
\* history entries, a Delete of [start, end) followed by an Insert at
\* start; one undo then leaves the content with the range deleted and the
\* new text removed, and two undos restore the original content. A call
\* that returns false either changed nothing or left the delete applied
\* and recorded.
C37_ReplaceNotAtomic ==
    [][(last'.op = "replace_text")
       => LET n  == current_index + 1
              u1 == ManagerUndo(Manager', Doc')
              u2 == ManagerUndo(u1.mgr, u1.doc)
              cut(c) == SliceTo(content, c.position)
                            \o SliceFrom(content, c.end_position)
              deleted(c) == /\ c.kind = "delete"
                            /\ c.executed
                            /\ c.deleted_text
                                 = Slice(content, c.position, c.end_position)
          IN  /\ last'.ret
                 => /\ Len(history') = n + 2
                    /\ current_index' = n + 1
                    /\ deleted(history'[n + 1])
                    /\ history'[n + 2].kind = "insert"
                    /\ history'[n + 2].position = history'[n + 1].position
                    /\ content' = SliceTo(content, history'[n + 1].position)
                                    \o history'[n + 2].text
                                    \o SliceFrom(content,
                                                 history'[n + 1].end_position)
                    /\ u1.ret
                    /\ u1.doc.content = cut(history'[n + 1])
                    /\ u1.mgr.current_index = n
                    /\ u2.ret
                    /\ u2.doc.content = content
              /\ ~last'.ret
                 => \/ /\ history' = history
                       /\ current_index' = current_index
                       /\ content' = content
                    \/ /\ Len(history') = n + 1
                       /\ current_index' = n
                       /\ deleted(history'[n + 1])
                       /\ content' = cut(history'[n + 1])]_vars

\* a replace_text whose insert failed left its delete of "}" in the
\* history; a second replace_text succeeded and one undo took back only
\* its insert
C37_Witness ==
    /\ last.op = "undo"
    /\ last.ret
    /\ Len(history) = 3
    /\ current_index = 1
    /\ history[1].kind = "delete"
    /\ history[1].deleted_text = <<"}">>
    /\ history[2].kind = "delete"
    /\ history[3].kind = "insert"
    /\ history[3].text = <<"{">>
    /\ content = <<>>

\* the listeners of the pool that detach a listener inside update
Detachers == {"quitter", "bouncer"}

Clearing == {"load_from_file", "mark_as_saved", "reset"}

\* C39: the modified flag does not track the saved state through undo and
\* redo. After every successful undo() or redo() of an Insert or Delete
\* command is_modified is true; in particular an edit made right after
\* load_from_file or mark_as_saved and then undone gives back the saved
\* content with the flag set. Only load_from_file, mark_as_saved and reset
\* ever clear the flag.
C39_ModifiedThroughUndoRedo ==
    [][/\ (last'.op \in {"undo", "redo"} /\ last'.ret) => modified'
       /\ (modified /\ ~modified') => last'.op \in Clearing
       /\ (last'.op \in {"load_from_file", "mark_as_saved"})
          => /\ ~modified'
             /\ \A c \in {NewInsert(0, <<"{">>), NewDelete(0, 1)} :
                \A e \in {ManagerExecute(Manager', c, Doc')} :
                \A u \in {ManagerUndo(e.mgr, e.doc)} :
                \A r \in {ManagerRedo(u.mgr, u.doc)} :
                   e.ret => /\ u.ret
                            /\ u.doc.content = content'
                            /\ u.doc.modified
                            /\ r.ret
                            /\ r.doc.modified]_vars

\* the content "}{" came from load_from_file, its first character was
\* deleted and the delete undone: the loaded content is back and the
\* document counts as modified
C39_Witness ==
    /\ last.op = "undo"
    /\ last.ret
    /\ modified
    /\ filepath # "none"
    /\ content = <<"}", "{">>
    /\ current_index = -1
    /\ Len(history) = 1
    /\ history[1].kind = "delete"
    /\ history[1].deleted_text = <<"}">>

\* C40: the StatusObserver keeps a bounded event log. After any sequence
\* of n update calls the event history holds the most recent min(n, 20)
\* events in the order they arrived, never more than 20, and last_event
\* and the status message are those of the event received last.
C40_BoundedEventLog ==
    LET log == status.event_history
        n   == status.last_event_time
    IN  /\ Len(log) <= STATUS_MAX_HISTORY
        /\ Len(log) = IF n < STATUS_MAX_HISTORY THEN n ELSE STATUS_MAX_HISTORY
        /\ \A k \in 1..Len(log) : log[k].timestamp = n - Len(log) + k
        /\ (last.op = "update")
           => /\ status.last_event = last.value[1].type
              /\ log[Len(log)].event_type = last.value[1].type
              /\ log[Len(log)].message = status.status_message
              /\ (last.value[1].type = "saved")
                 => /\ status.status_message.kind = "saved"
                    /\ status.status_message.filepath
                         = last.value[1].filepath
              /\ (last.value[1].type = "content_changed")
                 => status.status_message.length = last.value[1].length

\* the 22nd event, a save, has arrived: the log holds the events 3 to 22
\* in that order, the two oldest are gone
C40_Witness ==
    /\ last.op = "update"
    /\ status.last_event_time = STATUS_MAX_HISTORY + 2
    /\ Len(status.event_history) = STATUS_MAX_HISTORY
    /\ status.event_history[1].timestamp = 3
    /\ status.event_history[1].event_type = "content_changed"
    /\ status.event_history[STATUS_MAX_HISTORY].event_type = "saved"
    /\ status.last_event = "saved"
====
